---------------------------- MODULE Spec2Model ----------------------------
(***************************************************************************)
(* Model of js/src/builtin/intl/make_intl_data.py, target "langtags":      *)
(*   - readSupplementalData builds the mapping tables from the CLDR alias  *)
(*     and likely-subtags records;                                         *)
(*   - writeUpdateLocaleIdMappingsFunction / writeGrandfatheredMappings-   *)
(*     Function emit the JavaScript functions updateLocaleIdMappings and   *)
(*     updateGrandfatheredMappings; the model keeps the emitted code as    *)
(*     data (case groups, if-chains) and executes it on a tag object;      *)
(*   - canonical / addLikelySubtags / removeLikelySubtags of               *)
(*     writeCLDRLanguageTagLikelySubtagsTest are modelled as operators.    *)
(* Subtags are strings; a Python dict is a sequence of <<key, value>>      *)
(* pairs in insertion order; Python None and JavaScript undefined are the  *)
(* value None.                                                             *)
(***************************************************************************)
EXTENDS Integers, Sequences, FiniteSets, TLC

None == "<none>"

\* The element of a one-element set: binds a computed value to a name.
Only(S) == CHOOSE x \in S : TRUE

-----------------------------------------------------------------------------
(* Characters and strings *)

LowerAlpha == "abcdefghijklmnopqrstuvwxyz"

UpperAlpha == "ABCDEFGHIJKLMNOPQRSTUVWXYZ"

Digits == "0123456789"

\* Code-point order of the characters that occur in subtags.
CharOrder == " -" \o Digits \o UpperAlpha \o "_" \o LowerAlpha

CharAt(s, i) == SubSeq(s, i, i)

CharIn(c, str) == \E i \in 1..Len(str) : CharAt(str, i) = c

IndexIn(c, str) == CHOOSE i \in 1..Len(str) : CharAt(str, i) = c

\* [a-z] under re.IGNORECASE
IsAlpha(c) == CharIn(c, LowerAlpha) \/ CharIn(c, UpperAlpha)

\* [0-9]
IsDigit(c) == CharIn(c, Digits)

\* [a-z0-9] under re.IGNORECASE
IsAlnum(c) == IsAlpha(c) \/ IsDigit(c)

AllAlpha(s) == \A i \in 1..Len(s) : IsAlpha(CharAt(s, i))

AllDigit(s) == \A i \in 1..Len(s) : IsDigit(CharAt(s, i))

AllAlnum(s) == \A i \in 1..Len(s) : IsAlnum(CharAt(s, i))

LowerChar(c) == IF CharIn(c, UpperAlpha) THEN CharAt(LowerAlpha, IndexIn(c, UpperAlpha)) ELSE c

UpperChar(c) == IF CharIn(c, LowerAlpha) THEN CharAt(UpperAlpha, IndexIn(c, LowerAlpha)) ELSE c

RECURSIVE StrLower(_)
StrLower(s) == IF s = "" THEN "" ELSE LowerChar(CharAt(s, 1)) \o StrLower(Tail(s))

RECURSIVE StrUpper(_)
StrUpper(s) == IF s = "" THEN "" ELSE UpperChar(CharAt(s, 1)) \o StrUpper(Tail(s))

\* str.title(): a cased character is upper-cased after an uncased one (or at
\* the start) and lower-cased after a cased one.
RECURSIVE TitleFrom(_, _)
TitleFrom(s, prevCased) ==
    IF s = "" THEN ""
    ELSE LET c == CharAt(s, 1)
         IN  (IF IsAlpha(c) THEN (IF prevCased THEN LowerChar(c) ELSE UpperChar(c)) ELSE c)
             \o TitleFrom(Tail(s), IsAlpha(c))

StrTitle(s) == TitleFrom(s, FALSE)

\* str.replace(old, new) for single characters
RECURSIVE StrReplace(_, _, _)
StrReplace(s, old, new) ==
    IF s = "" THEN ""
    ELSE (IF CharAt(s, 1) = old THEN new ELSE CharAt(s, 1)) \o StrReplace(Tail(s), old, new)

\* str.split(sep) for a single-character separator
RECURSIVE SplitFrom(_, _, _)
SplitFrom(s, sep, cur) ==
    IF s = "" THEN <<cur>>
    ELSE IF CharAt(s, 1) = sep THEN <<cur>> \o SplitFrom(Tail(s), sep, "")
    ELSE SplitFrom(Tail(s), sep, cur \o CharAt(s, 1))

StrSplit(s, sep) == SplitFrom(s, sep, "")

\* "-".join(parts) with a leading separator before every part
RECURSIVE JoinWithLeading(_, _)
JoinWithLeading(parts, sep) ==
    IF parts = <<>> THEN "" ELSE sep \o Head(parts) \o JoinWithLeading(Tail(parts), sep)

\* Python's < on strings: lexicographic by code point.
RECURSIVE StrLess(_, _)
StrLess(a, b) ==
    IF b = "" THEN FALSE
    ELSE IF a = "" THEN TRUE
    ELSE IF CharAt(a, 1) = CharAt(b, 1) THEN StrLess(Tail(a), Tail(b))
    ELSE IndexIn(CharAt(a, 1), CharOrder) < IndexIn(CharAt(b, 1), CharOrder)

\* sorted(seq) for a list of strings: stable insertion sort.
RECURSIVE InsertString(_, _)
InsertString(sorted, x) ==
    IF sorted = <<>> THEN <<x>>
    ELSE IF StrLess(x, Head(sorted)) THEN <<x>> \o sorted
    ELSE <<Head(sorted)>> \o InsertString(Tail(sorted), x)

RECURSIVE SortedStrings(_)
SortedStrings(seq) ==
    IF seq = <<>> THEN <<>>
    ELSE InsertString(SortedStrings(SubSeq(seq, 1, Len(seq) - 1)), seq[Len(seq)])

\* sorted(seq, key=itemgetter(0)) for a list of tuples whose first item is a
\* string: stable, so items with equal first item keep their relative order.
RECURSIVE InsertByItem0(_, _)
InsertByItem0(sorted, x) ==
    IF sorted = <<>> THEN <<x>>
    ELSE IF StrLess(x[1], Head(sorted)[1]) THEN <<x>> \o sorted
    ELSE <<Head(sorted)>> \o InsertByItem0(Tail(sorted), x)

RECURSIVE SortedByItem0(_)
SortedByItem0(seq) ==
    IF seq = <<>> THEN <<>>
    ELSE InsertByItem0(SortedByItem0(SubSeq(seq, 1, Len(seq) - 1)), seq[Len(seq)])

-----------------------------------------------------------------------------
(* Python dictionaries *)

DictKeys(d) == {d[i][1] : i \in 1..Len(d)}

DictHas(d, k) == \E i \in 1..Len(d) : d[i][1] = k

DictGet(d, k) == d[CHOOSE i \in 1..Len(d) : d[i][1] = k][2]

DictSet(d, k, v) ==
    IF DictHas(d, k)
    THEN [i \in 1..Len(d) |-> IF d[i][1] = k THEN <<k, v>> ELSE d[i]]
    ELSE Append(d, <<k, v>>)

-----------------------------------------------------------------------------
(* Regular expressions of readSupplementalData and                         *)
(* writeGrandfatheredMappingsFunction.  Every subtag class excludes "-",   *)
(* so a match is decided subtag by subtag on the "-"-separated parts.      *)

\* unicode_language_subtag = alpha{2,3} | alpha{5,8}
IsLanguageSubtag(s) == AllAlpha(s) /\ Len(s) \in {2, 3, 5, 6, 7, 8}

\* unicode_script_subtag = alpha{4}
IsScriptSubtag(s) == AllAlpha(s) /\ Len(s) = 4

\* unicode_region_subtag = (alpha{2} | digit{3})
IsRegionSubtag(s) == (AllAlpha(s) /\ Len(s) = 2) \/ (AllDigit(s) /\ Len(s) = 3)

\* unicode_variant_subtag = (alphanum{5,8} | digit alphanum{3})
IsVariantSubtag(s) ==
    \/ AllAlnum(s) /\ Len(s) \in 5..8
    \/ Len(s) = 4 /\ IsDigit(CharAt(s, 1)) /\ AllAlnum(s)

\* one subtag of pu_extensions after the "x": alphanum{1,8}
IsPrivateUseSubtag(s) == AllAlnum(s) /\ Len(s) \in 1..8

re_unicode_language_subtag(s) == IsLanguageSubtag(s)

re_unicode_region_subtag(s) == IsRegionSubtag(s)

NoMatch == [matched |-> FALSE, language |-> None, script |-> None, region |-> None, variants |-> None, privateuse |-> None]

\* The index of the first part that is "x" or "X", or Len(parts) + 1.
FirstX(parts) ==
    IF \E i \in 1..Len(parts) : StrLower(parts[i]) = "x"
    THEN CHOOSE i \in 1..Len(parts) : StrLower(parts[i]) = "x" /\ \A j \in 1..(i - 1) : StrLower(parts[j]) # "x"
    ELSE Len(parts) + 1

\* The match of the parts after language, script and region: variants, then
\* pu_extensions when the expression has that group.
MatchRest(parts, hasScript, hasRegion, rest, allowPrivateUse) ==
    LET x == IF allowPrivateUse THEN FirstX(rest) ELSE Len(rest) + 1
        vars == SubSeq(rest, 1, x - 1)
        pu == SubSeq(rest, x, Len(rest))
    IN  IF /\ IsLanguageSubtag(parts[1])
           /\ \A i \in 1..Len(vars) : IsVariantSubtag(vars[i])
           /\ pu # <<>> => (Len(pu) >= 2 /\ \A i \in 2..Len(pu) : IsPrivateUseSubtag(pu[i]))
        THEN [matched |-> TRUE,
              language |-> parts[1],
              script |-> IF hasScript THEN parts[2] ELSE None,
              region |-> IF hasRegion THEN parts[IF hasScript THEN 3 ELSE 2] ELSE None,
              variants |-> IF vars = <<>> THEN None ELSE JoinWithLeading(vars, "-"),
              privateuse |-> IF pu = <<>> THEN None ELSE Tail(JoinWithLeading(pu, "-"))]
        ELSE NoMatch

\* The optional script and region parts.
MatchParts(parts, allowPrivateUse) ==
    LET hasScript == Len(parts) >= 2 /\ IsScriptSubtag(parts[2])
        iRegion == IF hasScript THEN 3 ELSE 2
        hasRegion == Len(parts) >= iRegion /\ IsRegionSubtag(parts[iRegion])
        iRest == IF hasRegion THEN iRegion + 1 ELSE iRegion
    IN  Only({MatchRest(parts, s, r, rest, allowPrivateUse) :
                <<s, r, rest>> \in {hasScript} \X {hasRegion} \X {SubSeq(parts, iRest, Len(parts))}})

\* re_unicode_locale_id.match(tag); with allowPrivateUse = FALSE it is
\* re_unicode_language_id.match(tag), which has no pu_extensions group.
MatchLocaleId(tag, allowPrivateUse) ==
    Only({MatchParts(parts, allowPrivateUse) : parts \in {StrSplit(tag, "-")}})

re_unicode_language_id(tag) == MatchLocaleId(tag, FALSE)

re_unicode_locale_id(tag) == MatchLocaleId(tag, TRUE)

\* The fixed list of BCP 47 grandfathered language tags.
grandfathered_tags ==
    {"art-lojban", "cel-gaulish", "en-GB-oed", "i-ami", "i-bnn", "i-default",
     "i-enochian", "i-hak", "i-klingon", "i-lux", "i-mingo", "i-navajo", "i-pwn",
     "i-tao", "i-tay", "i-tsu", "no-bok", "no-nyn", "sgn-BE-FR", "sgn-BE-NL",
     "sgn-CH-DE", "zh-guoyu", "zh-hakka", "zh-min", "zh-min-nan", "zh-xiang"}

\* The grandfathered tags which are valid Unicode BCP 47 locale identifiers.
unicode_bcp47_grandfathered_tags == {tag \in grandfathered_tags : re_unicode_language_id(tag).matched}

\* type in unicode_bcp47_grandfathered_tags
IsUnicodeGrandfathered(type) == type \in grandfathered_tags /\ re_unicode_language_id(type).matched

\* CLDR uses "_" as the separator for some elements.
bcp47_id(cldr_id) == StrReplace(cldr_id, "_", "-")

bcp47_canonical(language, script, region) ==
    <<IF language # None THEN StrLower(language) ELSE None,
      IF script # None THEN StrTitle(script) ELSE None,
      IF region # None THEN StrUpper(region) ELSE None>>

-----------------------------------------------------------------------------
(* readSupplementalData.  The input is the content of the two CLDR files:  *)
(* languageAlias and territoryAlias elements as <<type, replacement>>,     *)
(* likelySubtag elements as <<from, to>>, in document order.  A failed     *)
(* assert aborts the program: ok = FALSE.                                  *)

\* The body of: for language_alias in tree.iterfind(".//languageAlias")
ReadLanguageAlias(acc, type, replacement, replacement_match) ==
    IF IsUnicodeGrandfathered(type)
    THEN [acc EXCEPT !.grandfatheredMappings = DictSet(@, type, replacement)]
    ELSE IF ~re_unicode_language_subtag(type)
    THEN acc
    ELSE IF re_unicode_language_subtag(replacement)
    THEN [acc EXCEPT !.languageMappings = DictSet(@, type, StrLower(replacement))]
    ELSE IF ~replacement_match.matched \/ replacement_match.variants # None
    THEN [acc EXCEPT !.ok = FALSE]
    ELSE [acc EXCEPT !.complexLanguageMappings =
             DictSet(@, type, bcp47_canonical(replacement_match.language,
                                              replacement_match.script,
                                              replacement_match.region))]

Front(seq) == SubSeq(seq, 1, Len(seq) - 1)

Last(seq) == seq[Len(seq)]

RECURSIVE ReadLanguageAliases(_, _)
ReadLanguageAliases(aliases, empty) ==
    IF aliases = <<>> THEN empty
    ELSE Only({IF acc.ok THEN ReadLanguageAlias(acc, type, replacement, re_unicode_language_id(replacement)) ELSE acc :
                 <<acc, type, replacement>> \in {ReadLanguageAliases(Front(aliases), empty)}
                                                \X {bcp47_id(Last(aliases)[1])} \X {bcp47_id(Last(aliases)[2])}})

UpperAll(seq) == [i \in 1..Len(seq) |-> StrUpper(seq[i])]

\* The body of: for territory_alias in tree.iterfind(".//territoryAlias")
ReadTerritoryAlias(acc, type, replacement, replacements) ==
    IF ~re_unicode_region_subtag(type)
    THEN acc
    ELSE IF re_unicode_region_subtag(replacement)
    THEN [acc EXCEPT !.regionMappings = DictSet(@, type, StrUpper(replacement))]
    ELSE IF \E i \in 1..Len(replacements) : ~re_unicode_region_subtag(replacements[i])
    THEN [acc EXCEPT !.ok = FALSE]
    ELSE [acc EXCEPT !.complex_region_mappings = DictSet(@, type, replacements)]

RECURSIVE ReadTerritoryAliases(_, _)
ReadTerritoryAliases(aliases, start) ==
    IF aliases = <<>> THEN start
    ELSE Only({IF acc.ok THEN ReadTerritoryAlias(acc, Last(aliases)[1], Last(aliases)[2], replacements) ELSE acc :
                 <<acc, replacements>> \in {ReadTerritoryAliases(Front(aliases), start)}
                                           \X {UpperAll(StrSplit(Last(aliases)[2], " "))}})

\* The body of: for likely_subtag in tree.iterfind(".//likelySubtag")
ReadLikelySubtag(acc, from_match, to_match) ==
    IF \/ ~from_match.matched \/ from_match.variants # None
       \/ ~to_match.matched \/ to_match.variants # None
    THEN [acc EXCEPT !.ok = FALSE]
    ELSE [acc EXCEPT !.likelySubtags =
             DictSet(@, bcp47_canonical(from_match.language, from_match.script, from_match.region),
                        bcp47_canonical(to_match.language, to_match.script, to_match.region))]

RECURSIVE ReadLikelySubtags(_, _)
ReadLikelySubtags(elements, start) ==
    IF elements = <<>> THEN start
    ELSE Only({IF acc.ok THEN ReadLikelySubtag(acc, from_match, to_match) ELSE acc :
                 <<acc, from_match, to_match>> \in {ReadLikelySubtags(Front(elements), start)}
                                                   \X {re_unicode_language_id(bcp47_id(Last(elements)[1]))}
                                                   \X {re_unicode_language_id(bcp47_id(Last(elements)[2]))}})

SeqContains(seq, x) == \E i \in 1..Len(seq) : seq[i] = x

\* RegionLikelySubtags keyed by language alone: the script of the likely
\* subtag entry is not carried over.
RECURSIVE RegionLikelySubtagsWithoutScript(_, _)
RegionLikelySubtagsWithoutScript(likely, replacements) ==
    IF likely = <<>> THEN <<>>
    ELSE LET from == Head(likely)[1]
             to == Head(likely)[2]
         IN  (IF from[3] = None /\ SeqContains(replacements, to[3])
              THEN <<(<<from[1], None, to[3]>>)>> ELSE <<>>)
             \o RegionLikelySubtagsWithoutScript(Tail(likely), replacements)

\* The likely subtag entries which don't already contain a region subtag and
\* whose target region is in the list of replacement regions.
RECURSIVE RegionLikelySubtags(_, _)
RegionLikelySubtags(likely, replacements) ==
    IF likely = <<>> THEN <<>>
    ELSE LET from == Head(likely)[1]
             to == Head(likely)[2]
         IN  (IF from[3] = None /\ SeqContains(replacements, to[3])
              THEN <<(<<from[1], from[2], to[3]>>)>> ELSE <<>>)
             \o RegionLikelySubtags(Tail(likely), replacements)

DefaultReplacements(region_likely_subtags, default) ==
    {<<region_likely_subtags[i][1], region_likely_subtags[i][2]>> :
        i \in {j \in 1..Len(region_likely_subtags) : region_likely_subtags[j][3] = default}}

\* NonDefaultReplacements without the filter: every entry is kept.
NonDefaultReplacementsUnfiltered(region_likely_subtags, default) == region_likely_subtags

NonDefaultReplacements(region_likely_subtags, default) ==
    SelectSeq(region_likely_subtags,
              LAMBDA e : <<e[1], e[2]>> \notin DefaultReplacements(region_likely_subtags, default))

\* The body of: for (deprecated_region, replacements) in complex_region_mappings.items()
FinalizeComplexRegion(acc, deprecated_region, default, non_default_replacements) ==
    IF non_default_replacements # <<>>
    THEN [acc EXCEPT !.complexRegionMappings =
             DictSet(@, deprecated_region, <<default, non_default_replacements>>)]
    ELSE [acc EXCEPT !.regionMappings = DictSet(@, deprecated_region, default)]

\* likely_subtags.items() as the interpreter iterates it: the items in the
\* order of insertion from Python 3.7 on, in the order of the hash table
\* under the Python 2 the script also runs with.  The order is not fixed by
\* the script, so every order of the items is a possible outcome; it stays
\* the same for the whole run, the dictionary being complete by then.
LikelySubtagsItems(likely_subtags) ==
    {[i \in 1..Len(likely_subtags) |-> likely_subtags[p[i]]] : p \in Permutations(1..Len(likely_subtags))}

\* items: likely_subtags.items() in the order of this run.
RECURSIVE FinalizeComplexRegions(_, _, _)
FinalizeComplexRegions(n, read, items) ==
    IF n = 0 THEN read
    ELSE Only({FinalizeComplexRegion(acc, read.complex_region_mappings[n][1],
                                     read.complex_region_mappings[n][2][1], non_default) :
                 <<acc, non_default>> \in
                     {FinalizeComplexRegions(n - 1, read, items)}
                     \X {Only({NonDefaultReplacements(rls, read.complex_region_mappings[n][2][1]) :
                                 rls \in {RegionLikelySubtags(items, read.complex_region_mappings[n][2])}})}})

EmptyData ==
    [ok |-> TRUE, grandfatheredMappings |-> <<>>, languageMappings |-> <<>>,
     complexLanguageMappings |-> <<>>, regionMappings |-> <<>>, complex_region_mappings |-> <<>>,
     complexRegionMappings |-> <<>>, likelySubtags |-> <<>>]

ReadElements(files) ==
    ReadLikelySubtags(files.likelySubtag,
        ReadTerritoryAliases(files.territoryAlias,
            ReadLanguageAliases(files.languageAlias, EmptyData)))

\* The dictionaries readSupplementalData can return for the files: one for
\* every order in which the interpreter may iterate likely_subtags.
readSupplementalData(files) ==
    UNION {IF read.ok
           THEN {FinalizeComplexRegions(Len(read.complex_region_mappings), read, items) :
                    items \in LikelySubtagsItems(read.likelySubtags)}
           ELSE {read} :
             read \in {ReadElements(files)}}

-----------------------------------------------------------------------------
(* writeUpdateLocaleIdMappingsFunction: the emitted switch statements, kept *)
(* as a sequence of case groups, and their execution on a tag object       *)
(* [language, script, region, variants, extensions, privateuse].           *)

\* language_aliases / region_aliases: the first deprecated subtag of every
\* replacement key gets an empty list, every later one is appended to it.
RECURSIVE MergeAliases(_, _)
MergeAliases(keyed, aliases) ==
    IF keyed = <<>> THEN aliases
    ELSE LET deprecated == Head(keyed)[1]
             key == Head(keyed)[2]
         IN  MergeAliases(Tail(keyed),
                          IF ~DictHas(aliases, key)
                          THEN DictSet(aliases, key, <<>>)
                          ELSE DictSet(aliases, key, Append(DictGet(aliases, key), deprecated)))

\* CaseGroups without the aliases: a group has the label of its first
\* deprecated subtag only.
RECURSIVE CaseGroupsWithoutAliases(_, _, _)
CaseGroupsWithoutAliases(items, keyed, aliases) ==
    IF items = <<>> THEN <<>>
    ELSE LET deprecated == Head(items)[1]
             key == Head(keyed)[2]
         IN  (IF SeqContains(DictGet(aliases, key), deprecated)
              THEN <<>>
              ELSE <<[labels |-> <<deprecated>>, body |-> Head(items)[2]]>>)
             \o CaseGroupsWithoutAliases(Tail(items), Tail(keyed), aliases)

\* The case groups: a deprecated subtag that is in the alias list of its key
\* is skipped, the others emit their own label followed by their aliases.
RECURSIVE CaseGroups(_, _, _)
CaseGroups(items, keyed, aliases) ==
    IF items = <<>> THEN <<>>
    ELSE LET deprecated == Head(items)[1]
             key == Head(keyed)[2]
         IN  (IF SeqContains(DictGet(aliases, key), deprecated)
              THEN <<>>
              ELSE <<[labels |-> <<deprecated>> \o DictGet(aliases, key), body |-> Head(items)[2]]>>)
             \o CaseGroups(Tail(items), Tail(keyed), aliases)

LanguageKeyed(items) == [i \in 1..Len(items) |-> <<items[i][1], items[i][2]>>]

\* switch (language) of updateLocaleIdMappings
LanguageCases(complex_language_mappings) ==
    LET items == SortedByItem0(complex_language_mappings)
        keyed == LanguageKeyed(items)
    IN  CaseGroups(items, keyed, MergeAliases(keyed, <<>>))

ReprSubtag(x) == IF x = None THEN "None" ELSE "'" \o x \o "'"

\* str(v) of a tuple (language, script, region)
StrOfTuple(v) == "(" \o ReprSubtag(v[1]) \o ", " \o ReprSubtag(v[2]) \o ", " \o ReprSubtag(v[3]) \o ")"

\* Characters of str(v) in code-point order, for sorted().
ReprOrder == " '(),-" \o Digits \o UpperAlpha \o "_" \o LowerAlpha

RECURSIVE ReprLess(_, _)
ReprLess(a, b) ==
    IF b = "" THEN FALSE
    ELSE IF a = "" THEN TRUE
    ELSE IF CharAt(a, 1) = CharAt(b, 1) THEN ReprLess(Tail(a), Tail(b))
    ELSE IndexIn(CharAt(a, 1), ReprOrder) < IndexIn(CharAt(b, 1), ReprOrder)

RECURSIVE InsertRepr(_, _)
InsertRepr(sorted, x) ==
    IF sorted = <<>> THEN <<x>>
    ELSE IF ReprLess(x, Head(sorted)) THEN <<x>> \o sorted
    ELSE <<Head(sorted)>> \o InsertRepr(Tail(sorted), x)

RECURSIVE SortedReprs(_)
SortedReprs(seq) ==
    IF seq = <<>> THEN <<>>
    ELSE InsertRepr(SortedReprs(SubSeq(seq, 1, Len(seq) - 1)), StrOfTuple(seq[Len(seq)]))

\* hash_key of the default region alone.
hash_keyDefaultOnly(default, non_default_replacements) == <<default, <<>>>>

\* hash_key: the default and the sorted list of str(v); the list stands for
\* its str(), which is one-to-one on lists of strings.
hash_key(default, non_default_replacements) == <<default, SortedReprs(non_default_replacements)>>

RegionKeyed(items) == [i \in 1..Len(items) |-> <<items[i][1], hash_key(items[i][2][1], items[i][2][2])>>]

\* RegionCases without sorted(): the tests are emitted in the order of the
\* list.
RegionCasesUnsorted(complex_region_mappings) ==
    LET items == SortedByItem0(complex_region_mappings)
        keyed == RegionKeyed(items)
        groups == CaseGroups(items, keyed, MergeAliases(keyed, <<>>))
    IN  [i \in 1..Len(groups) |->
            [labels |-> groups[i].labels,
             tests |-> groups[i].body[2],
             default |-> groups[i].body[1]]]

\* switch (region) of updateLocaleIdMappings; the tests of a group are its
\* first region's non-default replacements, sorted by language.
RegionCases(complex_region_mappings) ==
    LET items == SortedByItem0(complex_region_mappings)
        keyed == RegionKeyed(items)
        groups == CaseGroups(items, keyed, MergeAliases(keyed, <<>>))
    IN  [i \in 1..Len(groups) |->
            [labels |-> groups[i].labels,
             tests |-> SortedByItem0(groups[i].body[2]),
             default |-> groups[i].body[1]]]

HasCase(cases, label) == \E i \in 1..Len(cases) : SeqContains(cases[i].labels, label)

CaseOf(cases, label) == cases[CHOOSE i \in 1..Len(cases) : SeqContains(cases[i].labels, label)]

\* RunLanguageCase without the tests for undefined: the replacement's script
\* and region are always set.
RunLanguageCaseOverriding(tag, body) ==
    [tag EXCEPT !.language = body[1],
                !.script = IF body[2] # None THEN body[2] ELSE @,
                !.region = IF body[3] # None THEN body[3] ELSE @]

\* The body of a language case: tag.language is set, tag.script and
\* tag.region only if they are undefined.
RunLanguageCase(tag, body) ==
    [tag EXCEPT !.language = body[1],
                !.script = IF body[2] # None /\ @ = None THEN body[2] ELSE @,
                !.region = IF body[3] # None /\ @ = None THEN body[3] ELSE @]

TestMatches(tag, test) == tag.language = test[1] /\ (test[2] = None \/ tag.script = test[2])

\* RunRegionCase without the break: the last test that matches wins.
RunRegionCaseLastMatch(tag, case) ==
    IF \E i \in 1..Len(case.tests) : TestMatches(tag, case.tests[i])
    THEN LET i == CHOOSE k \in 1..Len(case.tests) :
                      /\ TestMatches(tag, case.tests[k])
                      /\ \A j \in (k + 1)..Len(case.tests) : ~TestMatches(tag, case.tests[j])
         IN  [tag EXCEPT !.region = case.tests[i][3]]
    ELSE [tag EXCEPT !.region = case.default]

\* The body of a region case: the first test that matches sets the region
\* and breaks; otherwise the default region is set.
RunRegionCase(tag, case) ==
    IF \E i \in 1..Len(case.tests) : TestMatches(tag, case.tests[i])
    THEN LET i == CHOOSE k \in 1..Len(case.tests) :
                      /\ TestMatches(tag, case.tests[k])
                      /\ \A j \in 1..(k - 1) : ~TestMatches(tag, case.tests[j])
         IN  [tag EXCEPT !.region = case.tests[i][3]]
    ELSE [tag EXCEPT !.region = case.default]

\* LanguageStep looking at the complex language mappings first.
LanguageStepComplexFirst(tag, language_mappings, complex_keys, language_cases) ==
    IF tag.language \in complex_keys
    THEN (IF HasCase(language_cases, tag.language)
          THEN [tag |-> RunLanguageCase(tag, CaseOf(language_cases, tag.language).body), failed |-> FALSE]
          ELSE [tag |-> tag, failed |-> TRUE])
    ELSE IF DictHas(language_mappings, tag.language)
    THEN [tag |-> [tag EXCEPT !.language = DictGet(language_mappings, tag.language)], failed |-> FALSE]
    ELSE [tag |-> tag, failed |-> FALSE]

\* The language part of updateLocaleIdMappings(tag).  failed: assert(false).
LanguageStep(tag, language_mappings, complex_keys, language_cases) ==
    IF DictHas(language_mappings, tag.language)
    THEN [tag |-> [tag EXCEPT !.language = DictGet(language_mappings, tag.language)], failed |-> FALSE]
    ELSE IF tag.language \in complex_keys
    THEN (IF HasCase(language_cases, tag.language)
          THEN [tag |-> RunLanguageCase(tag, CaseOf(language_cases, tag.language).body), failed |-> FALSE]
          ELSE [tag |-> tag, failed |-> TRUE])
    ELSE [tag |-> tag, failed |-> FALSE]

\* RegionStep with a switch over every region: a region that is in no table
\* reaches the default case and its assert(false).
RegionStepAssertingUnknown(tag, region_mappings, complex_keys, region_cases) ==
    IF tag.region = None
    THEN [tag |-> tag, failed |-> FALSE]
    ELSE IF DictHas(region_mappings, tag.region)
    THEN [tag |-> [tag EXCEPT !.region = DictGet(region_mappings, tag.region)], failed |-> FALSE]
    ELSE IF HasCase(region_cases, tag.region)
    THEN [tag |-> RunRegionCase(tag, CaseOf(region_cases, tag.region)), failed |-> FALSE]
    ELSE [tag |-> tag, failed |-> TRUE]

\* The region part of updateLocaleIdMappings(tag).
RegionStep(tag, region_mappings, complex_keys, region_cases) ==
    IF tag.region = None
    THEN [tag |-> tag, failed |-> FALSE]
    ELSE IF DictHas(region_mappings, tag.region)
    THEN [tag |-> [tag EXCEPT !.region = DictGet(region_mappings, tag.region)], failed |-> FALSE]
    ELSE IF tag.region \in complex_keys
    THEN (IF HasCase(region_cases, tag.region)
          THEN [tag |-> RunRegionCase(tag, CaseOf(region_cases, tag.region)), failed |-> FALSE]
          ELSE [tag |-> tag, failed |-> TRUE])
    ELSE [tag |-> tag, failed |-> FALSE]

\* updateLocaleIdMappings with the region tests on the language and script
\* read before the language switch.
updateLocaleIdMappingsRegionOnInput(tag, js) ==
    LET l == LanguageStep(tag, js.languageMappings, js.complexLanguageMappings, js.languageCases)
        r == RegionStep([tag EXCEPT !.region = l.tag.region],
                        js.regionMappings, js.complexRegionMappings, js.regionCases)
    IN  IF l.failed THEN l
        ELSE [tag |-> [l.tag EXCEPT !.region = r.tag.region], failed |-> r.failed]

\* updateLocaleIdMappings(tag) of the generated file js.
updateLocaleIdMappings(tag, js) ==
    LET l == LanguageStep(tag, js.languageMappings, js.complexLanguageMappings, js.languageCases)
        r == RegionStep(l.tag, js.regionMappings, js.complexRegionMappings, js.regionCases)
    IN  IF l.failed THEN l ELSE r

-----------------------------------------------------------------------------
(* writeGrandfatheredMappingsFunction: the emitted if / else-if chain and   *)
(* its execution.                                                          *)

\* GrandfatheredBranch writing the replacement's variants in the order the
\* replacement has them.
GrandfatheredBranchUnsorted(item) ==
    LET tag_match == re_unicode_locale_id(item[1])
        modern_match == re_unicode_locale_id(item[2])
        tag_variant == IF tag_match.variants = None THEN "" ELSE Tail(tag_match.variants)
    IN  [ok |-> /\ tag_match.matched
                /\ tag_match.script = None
                /\ tag_match.region = None
                /\ tag_match.variants # None
                /\ tag_match.privateuse = None
                /\ ~CharIn("-", tag_variant)
                /\ modern_match.matched,
         tag_language |-> tag_match.language,
         tag_variant |-> tag_variant,
         modern_language |-> modern_match.language,
         modern_script |-> modern_match.script,
         modern_region |-> modern_match.region,
         has_variants |-> modern_match.variants # None,
         modern_variants |-> IF modern_match.variants = None THEN <<>>
                             ELSE StrSplit(Tail(modern_match.variants), "-"),
         modern_privateuse |-> modern_match.privateuse]

\* One branch of the chain, from one (tag, modern) item.  ok = FALSE when an
\* assert of the generator fails.
GrandfatheredBranch(item) ==
    LET tag_match == re_unicode_locale_id(item[1])
        modern_match == re_unicode_locale_id(item[2])
        tag_variant == IF tag_match.variants = None THEN "" ELSE Tail(tag_match.variants)
    IN  [ok |-> /\ tag_match.matched
                /\ tag_match.script = None
                /\ tag_match.region = None
                /\ tag_match.variants # None
                /\ tag_match.privateuse = None
                /\ ~CharIn("-", tag_variant)
                /\ modern_match.matched,
         tag_language |-> tag_match.language,
         tag_variant |-> tag_variant,
         modern_language |-> modern_match.language,
         modern_script |-> modern_match.script,
         modern_region |-> modern_match.region,
         has_variants |-> modern_match.variants # None,
         modern_variants |-> IF modern_match.variants = None THEN <<>>
                             ELSE SortedStrings(StrSplit(Tail(modern_match.variants), "-")),
         modern_privateuse |-> modern_match.privateuse]

\* for (tag, modern) in sorted(grandfathered_mappings.items(), key=itemgetter(0))
GrandfatheredChain(grandfathered_mappings) ==
    LET items == SortedByItem0(grandfathered_mappings)
    IN  [i \in 1..Len(items) |-> GrandfatheredBranch(items[i])]

\* GrandfatheredExcluded without the test of tag.privateuse.
GrandfatheredExcludedIgnoringPrivateuse(tag) ==
    \/ tag.script # None
    \/ tag.region # None
    \/ Len(tag.variants) # 1
    \/ Len(tag.extensions) # 0

\* GrandfatheredExcluded without the test of tag.extensions.
GrandfatheredExcludedIgnoringExtensions(tag) ==
    \/ tag.script # None
    \/ tag.region # None
    \/ Len(tag.variants) # 1
    \/ tag.privateuse # None

\* The early return of updateGrandfatheredMappings.
GrandfatheredExcluded(tag) ==
    \/ tag.script # None
    \/ tag.region # None
    \/ Len(tag.variants) # 1
    \/ Len(tag.extensions) # 0
    \/ tag.privateuse # None

BranchMatches(tag, branch) == tag.language = branch.tag_language /\ tag.variants[1] = branch.tag_variant

\* RunBranch without "tag.variants.length = 0": the variants stay.
RunBranchKeepingVariants(tag, branch) ==
    [tag EXCEPT !.language = branch.modern_language,
                !.script = IF branch.modern_script # None THEN branch.modern_script ELSE @,
                !.region = IF branch.modern_region # None THEN branch.modern_region ELSE @,
                !.variants = IF branch.has_variants THEN branch.modern_variants ELSE @,
                !.privateuse = IF branch.modern_privateuse # None THEN branch.modern_privateuse ELSE @]

RunBranch(tag, branch) ==
    [tag EXCEPT !.language = branch.modern_language,
                !.script = IF branch.modern_script # None THEN branch.modern_script ELSE @,
                !.region = IF branch.modern_region # None THEN branch.modern_region ELSE @,
                !.variants = IF branch.has_variants THEN branch.modern_variants ELSE <<>>,
                !.privateuse = IF branch.modern_privateuse # None THEN branch.modern_privateuse ELSE @]

\* updateGrandfatheredMappings(tag) of the generated file js.
updateGrandfatheredMappings(tag, js) ==
    LET chain == js.grandfatheredChain
    IN  IF GrandfatheredExcluded(tag) THEN tag
        ELSE IF \E i \in 1..Len(chain) : BranchMatches(tag, chain[i])
        THEN LET i == CHOOSE k \in 1..Len(chain) :
                          /\ BranchMatches(tag, chain[k])
                          /\ \A j \in 1..(k - 1) : ~BranchMatches(tag, chain[j])
             IN  RunBranch(tag, chain[i])
        ELSE tag

\* writeMappingsVar: the entries of the variable, one line per key of
\* sorted(mapping).
writeMappingsVar(mapping) == SortedByItem0(mapping)

\* writeCLDRLanguageTagData: the generated file, i.e. the mapping variables
\* written by writeMappingsVar (the complex ones keep their keys only) and
\* the two functions.  ok = FALSE when an assert of the generator fails.
writeCLDRLanguageTagData(data) ==
    [ok |-> \A i \in 1..Len(data.grandfatheredMappings) : GrandfatheredBranch(data.grandfatheredMappings[i]).ok,
     grandfatheredMappings |-> writeMappingsVar(data.grandfatheredMappings),
     languageMappings |-> writeMappingsVar(data.languageMappings),
     complexLanguageMappings |-> DictKeys(data.complexLanguageMappings),
     regionMappings |-> writeMappingsVar(data.regionMappings),
     complexRegionMappings |-> DictKeys(data.complexRegionMappings),
     languageCases |-> LanguageCases(data.complexLanguageMappings),
     regionCases |-> RegionCases(data.complexRegionMappings),
     grandfatheredChain |-> GrandfatheredChain(data.grandfatheredMappings)]

-----------------------------------------------------------------------------
(* writeCLDRLanguageTagLikelySubtagsTest: canonical, addLikelySubtags and   *)
(* removeLikelySubtags.  A tag is a tuple <<language, script, region>>; a  *)
(* result is [ok, tag], ok = FALSE when the call raises (a failed assert,  *)
(* or next() on an exhausted generator).                                   *)

Raised == [ok |-> FALSE, tag |-> <<None, None, None>>]

Returned(tag) == [ok |-> TRUE, tag |-> tag]

\* Map deprecated language subtags.
CanonicalLanguage(tag, language_mappings, complex_language_mappings) ==
    IF DictHas(language_mappings, tag[1])
    THEN <<DictGet(language_mappings, tag[1]), tag[2], tag[3]>>
    ELSE IF DictHas(complex_language_mappings, tag[1])
    THEN LET m == DictGet(complex_language_mappings, tag[1])
         IN  <<m[1], IF tag[2] # None THEN tag[2] ELSE m[2], IF tag[3] # None THEN tag[3] ELSE m[3]>>
    ELSE tag

\* Map deprecated region subtags; complex region mappings are asserted away.
canonical(tag, language_mappings, complex_language_mappings, region_mappings, complex_region_mappings) ==
    LET t == CanonicalLanguage(tag, language_mappings, complex_language_mappings)
    IN  IF DictHas(region_mappings, t[3])
        THEN Returned(<<t[1], t[2], DictGet(region_mappings, t[3])>>)
        ELSE IF DictHas(complex_region_mappings, t[3])
        THEN Raised
        ELSE Returned(t)

\* DropUnknown for the script only: a region ZZ stays.
DropUnknownScriptOnly(tag) == <<tag[1], IF tag[2] = "Zzzz" THEN None ELSE tag[2], tag[3]>>

\* Step 1 of addLikelySubtags after canonical: the "unknown" subtags.
DropUnknown(tag) == <<tag[1], IF tag[2] = "Zzzz" THEN None ELSE tag[2], IF tag[3] = "ZZ" THEN None ELSE tag[3]>>

\* Step 2: the lookup keys in priority order.
Searches(tag) ==
    <<(<<tag[1], tag[2], tag[3]>>),
      (<<tag[1], None, tag[3]>>),
      (<<tag[1], tag[2], None>>),
      (<<tag[1], None, None>>),
      (<<"und", tag[2], None>>)>>

\* LikelyResult losing a script the search does not have.
LikelyResultDroppingScript(tag, search, match) ==
    <<IF tag[1] # search[1] THEN tag[1] ELSE match[1],
      IF tag[2] # search[2] THEN None ELSE match[2],
      IF tag[3] # search[3] THEN tag[3] ELSE match[3]>>

\* LikelyResult returning the matched value whole.
LikelyResultFromMatch(tag, search, match) == <<match[1], match[2], match[3]>>

\* LikelyResult with the comparisons inverted.
LikelyResultInverted(tag, search, match) ==
    <<IF tag[1] = search[1] THEN tag[1] ELSE match[1],
      IF tag[2] = search[2] THEN tag[2] ELSE match[2],
      IF tag[3] = search[3] THEN tag[3] ELSE match[3]>>

\* LikelyResult taking the language from the match in every case.
LikelyResultLanguageFromMatch(tag, search, match) ==
    <<match[1],
      IF tag[2] # search[2] THEN tag[2] ELSE match[2],
      IF tag[3] # search[3] THEN tag[3] ELSE match[3]>>

\* Step 3: a field equal to the search's field is replaced by the match's.
LikelyResult(tag, search, match) ==
    <<IF tag[1] # search[1] THEN tag[1] ELSE match[1],
      IF tag[2] # search[2] THEN tag[2] ELSE match[2],
      IF tag[3] # search[3] THEN tag[3] ELSE match[3]>>

\* LookupLikely taking the last key that is present.
LookupLikelyLastKey(tag, likely_subtags) ==
    LET searches == Searches(tag)
    IN  IF \E i \in 1..Len(searches) : DictHas(likely_subtags, searches[i])
        THEN LET i == CHOOSE k \in 1..Len(searches) :
                          /\ DictHas(likely_subtags, searches[k])
                          /\ \A j \in (k + 1)..Len(searches) : ~DictHas(likely_subtags, searches[j])
             IN  Returned(LikelyResult(tag, searches[i], DictGet(likely_subtags, searches[i])))
        ELSE Raised

LookupLikely(tag, likely_subtags) ==
    LET searches == Searches(tag)
    IN  IF \E i \in 1..Len(searches) : DictHas(likely_subtags, searches[i])
        THEN LET i == CHOOSE k \in 1..Len(searches) :
                          /\ DictHas(likely_subtags, searches[k])
                          /\ \A j \in 1..(k - 1) : ~DictHas(likely_subtags, searches[j])
             IN  Returned(LikelyResult(tag, searches[i], DictGet(likely_subtags, searches[i])))
        ELSE Raised

addLikelySubtags(tag, t) ==
    LET c == canonical(tag, t.languageMappings, t.complexLanguageMappings, t.regionMappings, t.complexRegionMappings)
    IN  IF c.ok THEN LookupLikely(DropUnknown(c.tag), t.likelySubtags) ELSE Raised

\* Trials with the script tried before the region.
TrialsScriptFirst(max) == <<(<<max[1], None, None>>), (<<max[1], max[2], None>>), (<<max[1], None, max[3]>>)>>

Trials(max) == <<(<<max[1], None, None>>), (<<max[1], None, max[3]>>), (<<max[1], max[2], None>>)>>

\* FindMatch returning the last trial that matches.
FindMatchLast(trials, max, t) ==
    IF \E k \in 1..Len(trials) : addLikelySubtags(trials[k], t) = Returned(max)
    THEN Returned(trials[CHOOSE k \in 1..Len(trials) :
                            /\ addLikelySubtags(trials[k], t) = Returned(max)
                            /\ \A j \in (k + 1)..Len(trials) : addLikelySubtags(trials[j], t) # Returned(max)])
    ELSE Returned(max)

\* FindMatch returning the first trial without comparing.
FindMatchUnchecked(trials, max, t) == IF trials = <<>> THEN Returned(max) ELSE Returned(Head(trials))

\* Step 3 of removeLikelySubtags: the trials in order; a trial whose
\* maximization raises ends the call.
RECURSIVE FindMatch(_, _, _)
FindMatch(trials, max, t) ==
    IF trials = <<>> THEN Returned(max)
    ELSE LET a == addLikelySubtags(Head(trials), t)
         IN  IF ~a.ok THEN Raised
             ELSE IF a.tag = max THEN Returned(Head(trials))
             ELSE FindMatch(Tail(trials), max, t)

\* removeLikelySubtags comparing the maximized trial with the tag it was
\* given instead of max.
removeLikelySubtagsAgainstInput(tag, t) ==
    LET max == addLikelySubtags(tag, t)
    IN  IF max.ok THEN FindMatch(Trials(max.tag), tag, t) ELSE Raised

removeLikelySubtags(tag, t) ==
    LET max == addLikelySubtags(tag, t)
    IN  IF max.ok THEN FindMatch(Trials(max.tag), max.tag, t) ELSE Raised

\* likely_canonical(from_tag, to_tag): the canonical form of the expected
\* result of an entry of the likely-subtags table; it raises when canonical
\* or addLikelySubtags raise and when the sanity check fails.
likely_canonical(from_tag, to_tag, t) ==
    LET from == canonical(from_tag, t.languageMappings, t.complexLanguageMappings,
                          t.regionMappings, t.complexRegionMappings)
    IN  IF ~from.ok THEN Raised
        ELSE LET to == IF DictHas(t.likelySubtags, from.tag) THEN DictGet(t.likelySubtags, from.tag)
                       ELSE to_tag
                 to_canonical == canonical(to, t.languageMappings, t.complexLanguageMappings,
                                           t.regionMappings, t.complexRegionMappings)
                 max == addLikelySubtags(from.tag, t)
             IN  IF to_canonical.ok /\ max.ok /\ to_canonical.tag = max.tag
                 THEN to_canonical
                 ELSE Raised

-----------------------------------------------------------------------------
(* Inputs *)

\* languageAlias elements the metadata file may hold.
LanguageAliasPool ==
    <<(<<"sh", "sr_Latn">>), (<<"cnr", "sr_ME">>), (<<"cmn", "zh">>), (<<"no", "nb">>),
      (<<"zh_guoyu", "zh">>), (<<"no_bok", "nb">>)>>

\* territoryAlias elements the metadata file may hold.
TerritoryAliasPool ==
    <<(<<"DD", "DE">>), (<<"SU", "RU AM UZ">>)>>

\* likelySubtag elements that decide the complex region mappings.
RegionLikelyPool ==
    <<(<<"uz_Cyrl", "uz_Cyrl_AM">>), (<<"uz", "uz_Latn_UZ">>), (<<"ru", "ru_Cyrl_RU">>)>>

\* The files hold at most MaxElements elements in all.
MaxElements == 3

\* The order-preserving selections of a pool: sets of indices.
Selections(pool, n) == {sel \in SUBSET (1..Len(pool)) : Cardinality(sel) <= n}

RECURSIVE Pick(_, _, _)
Pick(pool, sel, i) ==
    IF i > Len(pool) THEN <<>>
    ELSE (IF i \in sel THEN <<pool[i]>> ELSE <<>>) \o Pick(pool, sel, i + 1)

CldrFiles(languagePool, territoryPool, likelyPool, n) ==
    {[languageAlias |-> Pick(languagePool, a, 1),
      territoryAlias |-> Pick(territoryPool, b, 1),
      likelySubtag |-> Pick(likelyPool, c, 1)] :
        <<a, b, c>> \in {x \in Selections(languagePool, n) \X Selections(territoryPool, n) \X Selections(likelyPool, n) :
                            Cardinality(x[1]) + Cardinality(x[2]) + Cardinality(x[3]) <= n}}

\* Tags handed to the canonicalizer: a language and at most MaxOptional of
\* script, region, variants, extensions and privateuse.
MaxOptional == 2

TagLanguages == {"sh", "cnr", "cmn", "no", "zh", "uz"}

TagScripts == {None, "Cyrl"}

TagRegions == {None, "SU", "DD"}

TagVariants == {<<>>, <<"guoyu">>, <<"bok">>, <<"guoyu", "lojban">>}

TagExtensions == {<<>>, <<"u-ca-gregory">>}

TagPrivateUse == {None, "x-priv"}

OptionalCount(t) ==
    (IF t.script # None THEN 1 ELSE 0) + (IF t.region # None THEN 1 ELSE 0)
    + (IF t.variants # <<>> THEN 1 ELSE 0) + (IF t.extensions # <<>> THEN 1 ELSE 0)
    + (IF t.privateuse # None THEN 1 ELSE 0)

TagInputs ==
    {t \in [language : TagLanguages, script : TagScripts, region : TagRegions,
            variants : TagVariants, extensions : TagExtensions, privateuse : TagPrivateUse] :
        OptionalCount(t) <= MaxOptional}

-----------------------------------------------------------------------------
(* State *)

VARIABLES
    cldr,        \* the content of supplementalMetadata.xml and likelySubtags.xml
    data,        \* the dictionary returned by readSupplementalData
    generated,   \* the generated file: mapping variables and the two functions
    tag,         \* the tag object the generated functions work on
    input,       \* the tag as the caller built it
    pc,          \* the caller: "idle", the generated function it calls next, "canonical", "returned"
    passes,      \* completed canonicalizations of the tag object
    firstPass,   \* the tag after the first canonicalization
    failed,      \* an assert(false) of the generated code was reached
    call         \* the last call of addLikelySubtags / removeLikelySubtags

vars == <<cldr, data, generated, tag, input, pc, passes, firstPass, failed, call>>

NoTag == [language |-> None, script |-> None, region |-> None, variants |-> <<>>, extensions |-> <<>>, privateuse |-> None]

NoCall == [op |-> "none", arg |-> <<None, None, None>>, ret |-> Raised]

\* CanonicalizeSteps with the deprecated subtags mapped first and the
\* grandfathered tags second.
CanonicalizeStepsLanguageFirst == <<"updateLocaleIdMappings", "updateGrandfatheredMappings">>

\* The caller of the generated functions canonicalizes a tag by mapping
\* grandfathered tags first and deprecated subtags second.
CanonicalizeSteps == <<"updateGrandfatheredMappings", "updateLocaleIdMappings">>

\* The program has read the files and written the generated file; a run in
\* which an assert fails leaves nothing behind.
InitFrom(files) ==
    /\ \E f \in files : \E d \in readSupplementalData(f) : \E js \in {writeCLDRLanguageTagData(d)} :
          /\ d.ok
          /\ js.ok
          /\ cldr = f
          /\ data = d
          /\ generated = js
    /\ tag = NoTag
    /\ input = NoTag
    /\ pc = "idle"
    /\ passes = 0
    /\ firstPass = NoTag
    /\ failed = FALSE
    /\ call = NoCall

Init == InitFrom(CldrFiles(LanguageAliasPool, TerritoryAliasPool, RegionLikelyPool, MaxElements))

\* The caller builds a tag object.
ParseTag(t) ==
    /\ pc = "idle"
    /\ tag' = t
    /\ input' = t
    /\ pc' = CanonicalizeSteps[1]
    /\ passes' = 0
    /\ firstPass' = NoTag
    /\ failed' = FALSE
    /\ call' = NoCall
    /\ UNCHANGED <<cldr, data, generated>>

StepIndex(name) == CHOOSE k \in 1..Len(CanonicalizeSteps) : CanonicalizeSteps[k] = name

AfterStep(k) ==
    /\ pc' = IF k < Len(CanonicalizeSteps) THEN CanonicalizeSteps[k + 1] ELSE "canonical"
    /\ passes' = IF k < Len(CanonicalizeSteps) THEN passes ELSE passes + 1
    /\ firstPass' = IF k = Len(CanonicalizeSteps) /\ passes = 0 THEN tag' ELSE firstPass

\* updateGrandfatheredMappings(tag)
UpdateGrandfatheredMappings ==
    /\ pc = "updateGrandfatheredMappings"
    /\ tag' = updateGrandfatheredMappings(tag, generated)
    /\ AfterStep(StepIndex(pc))
    /\ UNCHANGED <<cldr, data, generated, input, failed, call>>

\* UpdateLocaleIdMappings with the region assignment the other way round:
\* regionMappings[region] = tag.region.
UpdateLocaleIdMappingsAssigningTable ==
    /\ pc = "updateLocaleIdMappings"
    /\ tag' = LanguageStep(tag, generated.languageMappings, generated.complexLanguageMappings,
                           generated.languageCases).tag
    /\ failed' = updateLocaleIdMappings(tag, generated).failed
    /\ generated' = IF DictHas(generated.regionMappings, tag'.region)
                    THEN [generated EXCEPT !.regionMappings = DictSet(@, tag'.region, tag'.region)]
                    ELSE generated
    /\ AfterStep(StepIndex(pc))
    /\ UNCHANGED <<cldr, data, input, call>>

\* updateLocaleIdMappings(tag)
UpdateLocaleIdMappings ==
    /\ pc = "updateLocaleIdMappings"
    /\ tag' = updateLocaleIdMappings(tag, generated).tag
    /\ failed' = updateLocaleIdMappings(tag, generated).failed
    /\ AfterStep(StepIndex(pc))
    /\ UNCHANGED <<cldr, data, generated, input, call>>

\* The caller canonicalizes the canonicalized tag object once more.
CanonicalizeAgain ==
    /\ pc = "canonical"
    /\ ~failed
    /\ passes = 1
    /\ pc' = CanonicalizeSteps[1]
    /\ UNCHANGED <<cldr, data, generated, tag, input, passes, firstPass, failed, call>>

\* The caller is done with the tag object or with the returned tuple.
Discard ==
    /\ pc \in {"canonical", "returned"}
    /\ pc' = "idle"
    /\ tag' = NoTag
    /\ input' = NoTag
    /\ passes' = 0
    /\ firstPass' = NoTag
    /\ failed' = FALSE
    /\ call' = NoCall
    /\ UNCHANGED <<cldr, data, generated>>

Next ==
    \/ \E t \in TagInputs : ParseTag(t)
    \/ UpdateGrandfatheredMappings
    \/ UpdateLocaleIdMappings
    \/ CanonicalizeAgain
    \/ Discard

Spec == Init /\ [][Next]_vars

-----------------------------------------------------------------------------
(* The likely-subtags functions, on files that shape the likely-subtags    *)
(* table.                                                                  *)

LikelyLanguageAliasPool ==
    <<(<<"iw", "he">>), (<<"sh", "sr_Latn">>), (<<"he", "iw">>), (<<"cnr", "sr_ME">>)>>

LikelyTerritoryAliasPool ==
    <<(<<"DD", "DE">>), (<<"SU", "RU UZ">>)>>

LikelySubtagPool ==
    <<(<<"en", "en_Latn_US">>), (<<"zh", "zh_Hans_CN">>), (<<"zh_Hant", "zh_Hant_TW">>),
      (<<"zh_TW", "zh_Hant_TW">>), (<<"und", "en_Latn_US">>), (<<"und_Hebr", "iw_Hebr_IL">>),
      (<<"uz", "uz_Latn_UZ">>), (<<"en_Latn_US", "en_Latn_GB">>), (<<"und_Latn", "en_Latn">>)>>

\* The files hold at most MaxLikelyElements elements in all.
MaxLikelyElements == 3

TupleLanguages == {"und", "en", "zh", "iw", "sh", "uz", "cnr"}

TupleScripts == {None, "Zzzz", "Latn", "Hant"}

TupleRegions == {None, "ZZ", "US", "TW", "SU", "DD"}

TupleInputs == TupleLanguages \X TupleScripts \X TupleRegions

InitLikely == InitFrom(CldrFiles(LikelyLanguageAliasPool, LikelyTerritoryAliasPool, LikelySubtagPool, MaxLikelyElements))

Called(op, arg, ret) ==
    /\ pc = "idle"
    /\ call' = [op |-> op, arg |-> arg, ret |-> ret]
    /\ pc' = "returned"
    /\ UNCHANGED <<cldr, data, generated, tag, input, passes, firstPass, failed>>

\* addLikelySubtags(x)
AddLikelySubtags(x) == Called("addLikelySubtags", x, addLikelySubtags(x, data))

\* removeLikelySubtags(x)
RemoveLikelySubtags(x) == Called("removeLikelySubtags", x, removeLikelySubtags(x, data))

NextLikely ==
    \/ \E x \in TupleInputs : AddLikelySubtags(x)
    \/ \E x \in TupleInputs : RemoveLikelySubtags(x)
    \/ Discard

SpecLikely == InitLikely /\ [][NextLikely]_vars

-----------------------------------------------------------------------------
(* The generated functions on files that shape the grandfathered table and *)
(* put one language in both language tables.                               *)

\* languageAlias elements: grandfathered tags whose replacements have no
\* other part, every other part, or a privateuse part; a language with a
\* complex and a simple replacement; a replacement for the language of a
\* grandfathered tag.
RewriteLanguageAliasPool ==
    <<(<<"zh_guoyu", "zh">>), (<<"zh_xiang", "hsn_Latn_CN_pinyin_fonipa_x_priv">>),
      (<<"cel_gaulish", "xtg_x_cel_gaulish">>), (<<"art_lojban", "jbo">>),
      (<<"sh", "sr_Latn">>), (<<"sh", "sr">>), (<<"zh", "cmn">>)>>

RewriteTerritoryAliasPool ==
    <<(<<"DD", "DE">>)>>

\* The files hold at most MaxRewriteElements elements in all.
MaxRewriteElements == 3

RewriteTagInputs ==
    [language : {"zh", "cel", "art", "sh"},
     script : {None, "Cyrl"},
     region : {None, "DD"},
     variants : {<<>>, <<"guoyu">>, <<"xiang">>, <<"gaulish">>, <<"lojban">>, <<"guoyu", "xiang">>},
     extensions : TagExtensions,
     privateuse : TagPrivateUse]

InitRewrite == InitFrom(CldrFiles(RewriteLanguageAliasPool, RewriteTerritoryAliasPool, <<>>, MaxRewriteElements))

NextRewrite ==
    \/ \E t \in RewriteTagInputs : ParseTag(t)
    \/ UpdateGrandfatheredMappings
    \/ UpdateLocaleIdMappings
    \/ CanonicalizeAgain
    \/ Discard

SpecRewrite == InitRewrite /\ [][NextRewrite]_vars

-----------------------------------------------------------------------------
(* Canonicalization properties, under Spec.                                *)

\* The caller has canonicalized the tag object exactly once.
CanonicalizedOnce == pc = "canonical" /\ passes = 1 /\ ~failed

\* C1: canonicalize is idempotent: canonicalizing a canonicalized tag once
\* more changes none of its fields (language, script, region, variants,
\* extensions, privateuse), whatever the mapping tables are.
C1_CanonicalizeIdempotent ==
    (pc = "canonical" /\ passes = 2 /\ ~failed) => tag = firstPass

\* updateLocaleIdMappings(tag) is being called on a tag whose language is a
\* key of the complex language mappings (and not of the simple ones, which
\* are looked up first).
ComplexLanguageCall ==
    /\ pc = "updateLocaleIdMappings"
    /\ pc' # pc
    /\ DictHas(data.complexLanguageMappings, tag.language)
    /\ ~DictHas(data.languageMappings, tag.language)

DeprecatedRegions == DictKeys(data.regionMappings) \cup DictKeys(data.complexRegionMappings)

\* The region the language mapping leaves on the tag: its own region, else
\* the region of the complex replacement, else none.
RegionAfterLanguage ==
    IF tag.region # None THEN tag.region
    ELSE IF DictHas(data.languageMappings, tag.language) THEN None
    ELSE IF DictHas(data.complexLanguageMappings, tag.language)
    THEN DictGet(data.complexLanguageMappings, tag.language)[3]
    ELSE None

\* C5: a complex language mapping (L, S?, R?) sets the language to L, the
\* script to S only if the tag has no script and the region to R only if the
\* tag has no region; a script already on the tag is kept, and so is a region
\* already on the tag (a region that is itself deprecated then goes through
\* region canonicalization, C6).
C5_ComplexLanguageKeepsExplicit ==
    [][ComplexLanguageCall =>
          LET m == DictGet(data.complexLanguageMappings, tag.language)
          IN  /\ ~failed'
              /\ tag'.language = m[1]
              /\ tag'.script = (IF tag.script # None THEN tag.script ELSE m[2])
              /\ (RegionAfterLanguage \notin DeprecatedRegions => tag'.region = RegionAfterLanguage)
              /\ (tag.region # None => RegionAfterLanguage = tag.region)]_vars

\* C5 happens: sh -> sr-Latn on a tag with a region and no script.
C5_Witness ==
    /\ CanonicalizedOnce
    /\ input.language = "sh" /\ input.script = None /\ input.region = "DD"
    /\ tag.language = "sr" /\ tag.script = "Latn" /\ tag.region = "DD"

\* The region the tables give for a deprecated region, for the language and
\* script the tag has after the language mapping: the simple mapping first,
\* else the first matching entry of the complex mapping in table order, else
\* its default.
TableRegion(region, language, script) ==
    IF region = None THEN None
    ELSE IF DictHas(data.regionMappings, region) THEN DictGet(data.regionMappings, region)
    ELSE IF DictHas(data.complexRegionMappings, region)
    THEN LET default == DictGet(data.complexRegionMappings, region)[1]
             entries == DictGet(data.complexRegionMappings, region)[2]
             matching == {i \in 1..Len(entries) :
                             /\ entries[i][1] = language
                             /\ (entries[i][2] = None \/ entries[i][2] = script)}
         IN  IF matching = {} THEN default
             ELSE entries[CHOOSE i \in matching : \A j \in matching : i <= j][3]
    ELSE region

\* C6: region canonicalization replaces a key of the simple region mapping
\* by its value; otherwise a key of the complex region mapping by the region
\* of the first entry whose language is the tag's and whose script is absent
\* or the tag's, or by the default region when no entry matches; a tag
\* without region is not touched.
C6_RegionCanonicalization ==
    [][(pc = "updateLocaleIdMappings" /\ pc' # pc /\ ~failed') =>
          tag'.region = TableRegion(RegionAfterLanguage, tag'.language, tag'.script)]_vars

\* C6 happens: SU has two entries for uz, the first one with script Cyrl;
\* uz-Cyrl-SU takes the first, AM.
C6_Witness ==
    /\ CanonicalizedOnce
    /\ DictHas(data.complexRegionMappings, "SU")
    /\ Len(DictGet(data.complexRegionMappings, "SU")[2]) = 2
    /\ input.language = "uz" /\ input.script = "Cyrl" /\ input.region = "SU"
    /\ tag.region = "AM"

\* The tag language = l, variants = [v], nothing else.
VariantTag(l, v) == [NoTag EXCEPT !.language = l, !.variants = <<v>>]

\* The language after canonicalization when only the simple language mapping
\* applies to it.
SimplyMapped(l) == IF DictHas(data.languageMappings, l) THEN DictGet(data.languageMappings, l) ELSE l

\* The alias data holds the languageAlias element type -> replacement.
HasLanguageAlias(type, replacement) == SeqContains(cldr.languageAlias, <<type, replacement>>)

\* C7 as stated: with alias data that contains no-bok -> nb, canonicalizing
\* language = "no", variants = ["bok"] yields language "nb" with an empty
\* variant list.
C7_NoBokMapped ==
    (CanonicalizedOnce /\ HasLanguageAlias("no_bok", "nb") /\ input = VariantTag("no", "bok"))
        => (tag.language = "nb" /\ tag.variants = <<>>)

\* C7, amended: the alias no-bok -> nb does not enter the grandfathered table
\* (no-bok is not a Unicode locale identifier), so the tag no + [bok] keeps
\* its variant list and its language changes by the language mapping only;
\* a grandfathered tag that is in the table, zh-guoyu -> zh, is replaced
\* exactly: language zh, variant list empty.
C7_GrandfatheredExactness ==
    /\ (CanonicalizedOnce /\ HasLanguageAlias("no_bok", "nb") /\ input = VariantTag("no", "bok"))
           => /\ ~DictHas(data.grandfatheredMappings, "no-bok")
              /\ tag.variants = <<"bok">>
              /\ tag.language = SimplyMapped("no")
    /\ (CanonicalizedOnce /\ HasLanguageAlias("zh_guoyu", "zh") /\ input = VariantTag("zh", "guoyu"))
           => /\ DictGet(data.grandfatheredMappings, "zh-guoyu") = "zh"
              /\ tag.variants = <<>>
              /\ tag.language = SimplyMapped("zh")

\* C7 happens: both aliases are in the data, and zh-guoyu was canonicalized.
C7_Witness ==
    /\ CanonicalizedOnce
    /\ HasLanguageAlias("no_bok", "nb")
    /\ HasLanguageAlias("zh_guoyu", "zh")
    /\ input = VariantTag("zh", "guoyu")
    /\ tag.variants = <<>>

-----------------------------------------------------------------------------
(* Likely-subtags properties, under SpecLikely.  maximize is                 *)
(* addLikelySubtags, minimize is removeLikelySubtags.                        *)

Maximized == call.op = "addLikelySubtags"

Minimized == call.op = "removeLikelySubtags"

DeprecatedLanguages(t) == DictKeys(t.languageMappings) \cup DictKeys(t.complexLanguageMappings)

DeprecatedRegionsOf(t) == DictKeys(t.regionMappings) \cup DictKeys(t.complexRegionMappings)

\* No replacement of a deprecated subtag is itself deprecated.
AliasClosed(t) ==
    /\ \A i \in 1..Len(t.languageMappings) : t.languageMappings[i][2] \notin DeprecatedLanguages(t)
    /\ \A i \in 1..Len(t.complexLanguageMappings) :
          /\ t.complexLanguageMappings[i][2][1] \notin DeprecatedLanguages(t)
          /\ t.complexLanguageMappings[i][2][3] \notin DeprecatedRegionsOf(t)
    /\ \A i \in 1..Len(t.regionMappings) : t.regionMappings[i][2] \notin DeprecatedRegionsOf(t)

\* A likely-subtags entry repeats the subtags its key gives.
KeyPreserving(likely_subtags) ==
    \A i \in 1..Len(likely_subtags) :
        LET k == likely_subtags[i][1]
            v == likely_subtags[i][2]
        IN  /\ k[1] # "und" => v[1] = k[1]
            /\ k[2] # None => v[2] = k[2]
            /\ k[3] # None => v[3] = k[3]

\* Every likely-subtags value is a complete triple of canonical subtags,
\* none of them "und", "Zzzz" or "ZZ".
CompleteValues(t) ==
    \A i \in 1..Len(t.likelySubtags) :
        LET v == t.likelySubtags[i][2]
        IN  /\ v[1] \notin {None, "und"} \cup DeprecatedLanguages(t)
            /\ v[2] \notin {None, "Zzzz"}
            /\ v[3] \notin {None, "ZZ"} \cup DeprecatedRegionsOf(t)

ConsistentTables(t) == AliasClosed(t) /\ KeyPreserving(t.likelySubtags) /\ CompleteValues(t)

\* C2 as stated: whenever maximize(x) succeeds, maximize(maximize(x))
\* succeeds and equals maximize(x).
C2_MaximizeIdempotent ==
    (Maximized /\ call.ret.ok) => addLikelySubtags(call.ret.tag, data) = call.ret

\* C2, amended: maximize(maximize(x)) succeeds and equals maximize(x) when
\* maximize(x) succeeds, the tables are consistent (no replacement of a
\* deprecated subtag is itself deprecated; every likely-subtags value is a
\* complete triple of canonical subtags that repeats the subtags of its key)
\* and the language of maximize(x) has its (language, None, None) entry.
C2_MaximizeIdempotentConsistent ==
    (/\ Maximized
     /\ call.ret.ok
     /\ ConsistentTables(data)
     /\ DictHas(data.likelySubtags, <<call.ret.tag[1], None, None>>))
        => addLikelySubtags(call.ret.tag, data) = call.ret

\* C2 happens: maximize filled something in, on consistent tables.
C2_Witness ==
    /\ Maximized
    /\ call.ret.ok
    /\ ConsistentTables(data)
    /\ DictHas(data.likelySubtags, <<call.ret.tag[1], None, None>>)
    /\ call.ret.tag # call.arg
    /\ call.arg[3] # None

\* C3 as stated: whenever maximize(x) succeeds, maximize(minimize(x)) equals
\* maximize(x).
C3_RoundTrip ==
    (Minimized /\ addLikelySubtags(call.arg, data).ok)
        => /\ call.ret.ok
           /\ addLikelySubtags(call.ret.tag, data) = addLikelySubtags(call.arg, data)

\* C3, amended: whenever minimize(x) succeeds, maximize(minimize(x)) equals
\* maximize(x) if minimize returned a reduced form, and also in the fallback
\* case if the tables are consistent.
C3_RoundTripWhenMinimized ==
    (/\ Minimized
     /\ call.ret.ok
     /\ (call.ret.tag # addLikelySubtags(call.arg, data).tag \/ ConsistentTables(data)))
        => addLikelySubtags(call.ret.tag, data) = addLikelySubtags(call.arg, data)

\* C3 happens in the fallback case: minimize returned a complete triple on
\* consistent tables.
C3_Witness ==
    /\ Minimized
    /\ call.ret.ok
    /\ ConsistentTables(data)
    /\ call.ret.tag[2] # None
    /\ call.ret.tag[3] # None
    /\ call.ret.tag = addLikelySubtags(call.arg, data).tag

\* maximize was called with a script and a region that are present and are
\* not the sentinels.
ExplicitScriptAndRegion ==
    /\ Maximized
    /\ call.arg[2] \notin {None, "Zzzz"}
    /\ call.arg[3] \notin {None, "ZZ"}

\* C4 as stated: with explicit script and region, the result of
\* maximize(l, s, r) is (l, s, r) unchanged, for every l and every content of
\* the tables.
C4_ExplicitWins ==
    (ExplicitScriptAndRegion /\ call.ret.ok) => call.ret.tag = call.arg

\* C4, amended: with explicit script and region, when maximize returns and
\* every likely-subtags entry repeats the subtags of its key, the result
\* keeps the script s; it keeps the region r unless r is deprecated and the
\* language l unless l is deprecated or "und".
C4_ExplicitWinsCanonical ==
    (ExplicitScriptAndRegion /\ call.ret.ok /\ KeyPreserving(data.likelySubtags))
        => /\ call.ret.tag[2] = call.arg[2]
           /\ (call.arg[3] \notin DeprecatedRegionsOf(data) => call.ret.tag[3] = call.arg[3])
           /\ (call.arg[1] \notin {"und"} \cup DeprecatedLanguages(data) => call.ret.tag[1] = call.arg[1])

\* C4 happens: the (language, None, None) entry matched and its script and
\* region differ from the explicit ones.
C4_Witness ==
    /\ ExplicitScriptAndRegion
    /\ call.ret.ok
    /\ KeyPreserving(data.likelySubtags)
    /\ DictHas(data.likelySubtags, <<call.arg[1], None, None>>)
    /\ DictGet(data.likelySubtags, <<call.arg[1], None, None>>)[2] # call.arg[2]
    /\ DictGet(data.likelySubtags, <<call.arg[1], None, None>>)[3] # call.arg[3]
    /\ call.ret.tag = call.arg

\* The likely-subtags table maps key to value.
Likely(key, value) == DictHas(data.likelySubtags, key) /\ DictGet(data.likelySubtags, key) = value

\* The table of the zh-Hant scenario.
ZhTable ==
    /\ Likely(<<"zh", None, None>>, <<"zh", "Hans", "CN">>)
    /\ Likely(<<"zh", "Hant", None>>, <<"zh", "Hant", "TW">>)
    /\ Likely(<<"zh", None, "TW">>, <<"zh", "Hant", "TW">>)
    /\ ~DictHas(data.likelySubtags, <<"zh", "Hant", "TW">>)
    /\ "zh" \notin DeprecatedLanguages(data)
    /\ "TW" \notin DeprecatedRegionsOf(data)

\* C8 as stated: minimize of (zh, Hant, TW) returns (zh, Hant, None).
C8_ZhHantMinimizedToScript ==
    (ZhTable /\ Minimized /\ call.arg = <<"zh", "Hant", "TW">>)
        => call.ret = Returned(<<"zh", "Hant", None>>)

\* C8, amended: maximize(zh, Hant, None) is (zh, Hant, TW), and minimize of
\* that result is (zh, None, TW): the trial (language, region) comes before
\* the trial (language, script), so the script is dropped and the region
\* is kept.
C8_ZhHantScenario ==
    /\ (ZhTable /\ Maximized /\ call.arg = <<"zh", "Hant", None>>)
           => call.ret = Returned(<<"zh", "Hant", "TW">>)
    /\ (ZhTable /\ Minimized /\ call.arg = <<"zh", "Hant", "TW">>)
           => call.ret = Returned(<<"zh", None, "TW">>)

C8_Witness ==
    /\ ZhTable
    /\ Minimized
    /\ call.arg = <<"zh", "Hant", "TW">>
    /\ call.ret.tag = <<"zh", None, "TW">>

\* The table of the en scenario: en -> en-Latn-US is the entry that decides
\* en, en and US are not deprecated.
EnTable ==
    /\ Likely(<<"en", None, None>>, <<"en", "Latn", "US">>)
    /\ ~DictHas(data.likelySubtags, <<"en", "Latn", "US">>)
    /\ ~DictHas(data.likelySubtags, <<"en", None, "US">>)
    /\ ~DictHas(data.likelySubtags, <<"en", "Latn", None>>)
    /\ "en" \notin DeprecatedLanguages(data)
    /\ "US" \notin DeprecatedRegionsOf(data)

\* C9 as stated: with a table that maps en to en-Latn-US, maximize(en, None,
\* None) returns (en, Latn, US) and minimize(en, Latn, US) returns
\* (en, None, None), whatever else the table and the alias data hold.
C9_EnScenarioAnyTable ==
    /\ (Likely(<<"en", None, None>>, <<"en", "Latn", "US">>) /\ Maximized /\ call.arg = <<"en", None, None>>)
           => call.ret = Returned(<<"en", "Latn", "US">>)
    /\ (Likely(<<"en", None, None>>, <<"en", "Latn", "US">>) /\ Minimized /\ call.arg = <<"en", "Latn", "US">>)
           => call.ret = Returned(<<"en", None, None>>)

\* C9, amended: with en -> en-Latn-US, no entry for the keys en-Latn-US,
\* en-US and en-Latn, and en and US not deprecated, maximize(en, None, None)
\* returns (en, Latn, US) and minimize(en, Latn, US) returns (en, None, None).
C9_EnScenario ==
    /\ (EnTable /\ Maximized /\ call.arg = <<"en", None, None>>)
           => call.ret = Returned(<<"en", "Latn", "US">>)
    /\ (EnTable /\ Minimized /\ call.arg = <<"en", "Latn", "US">>)
           => call.ret = Returned(<<"en", None, None>>)

C9_Witness ==
    /\ EnTable
    /\ Minimized
    /\ call.arg = <<"en", "Latn", "US">>
    /\ call.ret = Returned(<<"en", None, None>>)

\* The triple maximize looks up: the argument with its deprecated language
\* and its simply mapped region replaced and the sentinels dropped.
LookedUp(x) ==
    LET t == CanonicalLanguage(x, data.languageMappings, data.complexLanguageMappings)
    IN  DropUnknown(<<t[1], t[2], IF DictHas(data.regionMappings, t[3])
                                  THEN DictGet(data.regionMappings, t[3]) ELSE t[3]>>)

\* None of the five candidate keys is in the likely-subtags table.
NoCandidateKey(x) ==
    \A i \in 1..Len(Searches(LookedUp(x))) : ~DictHas(data.likelySubtags, Searches(LookedUp(x))[i])

\* C10 as stated: maximize raises exactly when none of its five candidate
\* keys is in the likely-subtags table.
C10_RaisesExactlyWithoutKey ==
    Maximized => (~call.ret.ok <=> NoCandidateKey(call.arg))

-----------------------------------------------------------------------------
(* Canonicalization of tags that need none, under Spec.                    *)

\* The key of the grandfathered table a tag with one variant stands for.
GrandfatheredKey(t) == t.language \o "-" \o t.variants[1]

\* The tag qualifies for the grandfathered rewrite and its (language,
\* variant) pair is in the grandfathered table.
MatchesGrandfathered(t) ==
    ~GrandfatheredExcluded(t) /\ DictHas(data.grandfatheredMappings, GrandfatheredKey(t))

\* The language is a key of neither language table, the region of neither
\* region table, and the tag matches no grandfathered entry.
AlreadyCanonical(t) ==
    /\ t.language \notin DictKeys(data.languageMappings) \cup DictKeys(data.complexLanguageMappings)
    /\ t.region \notin DeprecatedRegions
    /\ ~MatchesGrandfathered(t)

\* C11: canonicalizing a tag whose language and region are keys of no table
\* and which matches no grandfathered entry raises no error and returns the
\* tag with every field unchanged.
C11_CanonicalUnchanged ==
    (pc = "canonical" /\ passes = 1 /\ AlreadyCanonical(input)) => (~failed /\ tag = input)

\* C11 happens: a tag whose language and variant are in the grandfathered
\* table but which has an extension was canonicalized, with tables that
\* hold other languages and regions.
C11_Witness ==
    /\ pc = "canonical" /\ passes = 1
    /\ AlreadyCanonical(input)
    /\ data.languageMappings # <<>>
    /\ Len(input.variants) = 1
    /\ DictHas(data.grandfatheredMappings, GrandfatheredKey(input))
    /\ input.extensions # <<>>
    /\ tag = input

-----------------------------------------------------------------------------
(* The generated functions one by one, under SpecRewrite.                  *)

\* updateLocaleIdMappings(tag) is being called on a tag whose language is a
\* key of the simple language mappings.
SimpleLanguageCall ==
    /\ pc = "updateLocaleIdMappings"
    /\ pc' # pc
    /\ DictHas(data.languageMappings, tag.language)

\* C17: when tag.language is a key of the simple language mapping, the
\* language is replaced by the mapped value and the language step leaves
\* script and region as they are (the region then goes through region
\* canonicalization); the complex language mapping is not consulted, even
\* if the language is also one of its keys.
C17_SimpleLanguageFirst ==
    [][SimpleLanguageCall =>
          /\ ~failed'
          /\ tag'.language = DictGet(data.languageMappings, tag.language)
          /\ tag'.script = tag.script
          /\ tag'.region = TableRegion(tag.region, tag'.language, tag'.script)
          /\ (tag.region \notin DeprecatedRegions => tag'.region = tag.region)]_vars

\* C17 happens: sh is a key of both language mappings, and a tag without
\* script and region was canonicalized.
C17_Witness ==
    /\ CanonicalizedOnce
    /\ DictHas(data.languageMappings, "sh")
    /\ DictHas(data.complexLanguageMappings, "sh")
    /\ DictGet(data.complexLanguageMappings, "sh")[2] # None
    /\ input.language = "sh" /\ input.script = None /\ input.region = None
    /\ tag.language = "sr" /\ tag.script = None /\ tag.region = None

\* One of the two generated functions runs on the tag object.
CanonicalizeStep == pc \in {"updateGrandfatheredMappings", "updateLocaleIdMappings"} /\ pc' # pc

\* The step changes variants, extensions or privateuse.
TailChanged ==
    \/ tag'.variants # tag.variants
    \/ tag'.extensions # tag.extensions
    \/ tag'.privateuse # tag.privateuse

\* C12: the language and region steps leave variants, extensions and
\* privateuse exactly as they were; these fields change only in the
\* grandfathered rewrite of a matching tag, which has no extensions and no
\* privateuse on entry (so the extensions never change).
C12_TailPassesThrough ==
    [][(CanonicalizeStep /\ TailChanged) =>
          /\ pc = "updateGrandfatheredMappings"
          /\ MatchesGrandfathered(tag)
          /\ tag.extensions = <<>>
          /\ tag.privateuse = None
          /\ tag'.extensions = tag.extensions]_vars

\* C12 happens: the language and the region of a tag with two variants, an
\* extension and a privateuse part were replaced.
C12_Witness ==
    /\ CanonicalizedOnce
    /\ input.variants = <<"guoyu", "xiang">>
    /\ input.extensions # <<>>
    /\ input.privateuse # None
    /\ tag.language # input.language
    /\ tag.region # input.region
    /\ tag.variants = input.variants
    /\ tag.extensions = input.extensions
    /\ tag.privateuse = input.privateuse

-----------------------------------------------------------------------------
(* The lookup of maximize, under SpecLikely.                               *)

\* The five candidate keys of the triple x, in priority order.
CandidateKeys(x) ==
    <<(<<x[1], x[2], x[3]>>), (<<x[1], None, x[3]>>), (<<x[1], x[2], None>>),
      (<<x[1], None, None>>), (<<"und", x[2], None>>)>>

\* The k-th candidate key of x is in the table and no earlier one is.
FirstPresent(x, k) ==
    /\ DictHas(data.likelySubtags, CandidateKeys(x)[k])
    /\ \A j \in 1..(k - 1) : ~DictHas(data.likelySubtags, CandidateKeys(x)[j])

\* The result of maximize when the key used is key: a field of x that
\* equals the key's field is taken from the key's table value.
SelectedBy(x, key) ==
    [i \in 1..3 |-> IF x[i] = key[i] THEN DictGet(data.likelySubtags, key)[i] ELSE x[i]]

\* C13: the key maximize uses is the first of the five candidate keys,
\* built from the canonicalized input with the sentinels removed, that is in
\* the likely-subtags table; a later key is never used when an earlier one
\* is present.
C13_LookupPriority ==
    (Maximized /\ call.ret.ok) =>
        \A k \in 1..5 : FirstPresent(LookedUp(call.arg), k)
                            => call.ret.tag = SelectedBy(LookedUp(call.arg), CandidateKeys(LookedUp(call.arg))[k])

\* C13 happens: two candidate keys are present, and the later one would
\* have given another result.
C13_Witness ==
    /\ Maximized
    /\ call.ret.ok
    /\ \E k \in 1..5 : \E j \in (k + 1)..5 :
          /\ FirstPresent(LookedUp(call.arg), k)
          /\ DictHas(data.likelySubtags, CandidateKeys(LookedUp(call.arg))[j])
          /\ SelectedBy(LookedUp(call.arg), CandidateKeys(LookedUp(call.arg))[j]) # call.ret.tag
          /\ SelectedBy(LookedUp(call.arg), CandidateKeys(LookedUp(call.arg))[k]) = call.ret.tag

\* The key maximize uses for x, and the table value of that key.
MatchedKey(x) == CandidateKeys(x)[CHOOSE k \in 1..5 : FirstPresent(x, k)]

MatchedValue(x) == DictGet(data.likelySubtags, MatchedKey(x))

\* C14: for each of language, script and region independently, the result
\* field of maximize is the matched table value's field when the matched
\* key's field equals the field of the canonicalized input (sentinels
\* removed; both absent counts as equal), and the canonicalized input's own
\* field otherwise; so a field the caller gave, which canonicalization kept
\* and which differs from the matched key's field, is in the result.
C14_FieldSelection ==
    (Maximized /\ call.ret.ok) =>
        \A i \in 1..3 :
            /\ MatchedKey(LookedUp(call.arg))[i] = LookedUp(call.arg)[i]
                   => call.ret.tag[i] = MatchedValue(LookedUp(call.arg))[i]
            /\ MatchedKey(LookedUp(call.arg))[i] # LookedUp(call.arg)[i]
                   => call.ret.tag[i] = LookedUp(call.arg)[i]
            /\ (/\ call.arg[i] \notin {None, "Zzzz", "ZZ"}
                /\ LookedUp(call.arg)[i] = call.arg[i]
                /\ MatchedKey(LookedUp(call.arg))[i] # call.arg[i])
                   => call.ret.tag[i] = call.arg[i]

\* C14 happens: one field was kept against a different value in the table,
\* another one was inferred.
C14_Witness ==
    /\ Maximized
    /\ call.ret.ok
    /\ \E i \in 1..3 :
          /\ call.arg[i] # None
          /\ MatchedKey(LookedUp(call.arg))[i] # call.arg[i]
          /\ MatchedValue(LookedUp(call.arg))[i] # call.arg[i]
          /\ call.ret.tag[i] = call.arg[i]
    /\ \E i \in 1..3 :
          /\ call.arg[i] = None
          /\ call.ret.tag[i] = MatchedValue(LookedUp(call.arg))[i]
          /\ call.ret.tag[i] # None

-----------------------------------------------------------------------------
(* The sentinels of maximize, under SpecLikely.                            *)

\* C15 as stated: maximize(l, "Zzzz", r) equals maximize(l, None, r) and
\* maximize(l, s, "ZZ") equals maximize(l, s, None), for every l, also when
\* l is a key of the complex language mapping.
C15_SentinelsAbsent ==
    /\ (Maximized /\ call.arg[2] = "Zzzz")
           => call.ret = addLikelySubtags(<<call.arg[1], None, call.arg[3]>>, data)
    /\ (Maximized /\ call.arg[3] = "ZZ")
           => call.ret = addLikelySubtags(<<call.arg[1], call.arg[2], None>>, data)

\* The language mapping replaces l by a triple with this part (1: language,
\* 2: script, 3: region): l is a key of the complex language mappings, and
\* not of the simple ones.
Implies(l, part) ==
    /\ ~DictHas(data.languageMappings, l)
    /\ DictHas(data.complexLanguageMappings, l)
    /\ DictGet(data.complexLanguageMappings, l)[part] # None

\* C15, amended: maximize(l, "Zzzz", r) equals maximize(l, None, r) unless
\* the language mapping of l implies a script, and maximize(l, s, "ZZ")
\* equals maximize(l, s, None) unless the language mapping of l implies a
\* region or ZZ is a deprecated region: the sentinels are removed after the
\* language mapping, which takes them for a script and a region.
C15_SentinelsAbsentUnlessImplied ==
    /\ (Maximized /\ call.arg[2] = "Zzzz" /\ ~Implies(call.arg[1], 2))
           => call.ret = addLikelySubtags(<<call.arg[1], None, call.arg[3]>>, data)
    /\ (Maximized /\ call.arg[3] = "ZZ" /\ ~Implies(call.arg[1], 3) /\ "ZZ" \notin DeprecatedRegionsOf(data))
           => call.ret = addLikelySubtags(<<call.arg[1], call.arg[2], None>>, data)

\* C15 happens: maximize returned for a deprecated language with both
\* sentinels, and something was inferred.
C15_Witness ==
    /\ Maximized
    /\ call.ret.ok
    /\ call.arg[1] \in DeprecatedLanguages(data)
    /\ call.arg[2] = "Zzzz"
    /\ call.arg[3] = "ZZ"
    /\ ~Implies(call.arg[1], 2)
    /\ ~Implies(call.arg[1], 3)
    /\ call.ret.tag[2] \notin {None, "Zzzz"}
    /\ call.ret.tag[3] \notin {None, "ZZ"}

-----------------------------------------------------------------------------
(* The trials of minimize, under SpecLikely.                               *)

\* The three reduced forms of the maximized triple, in trial order.
ReducedForms(max) == <<(<<max[1], None, None>>), (<<max[1], None, max[3]>>), (<<max[1], max[2], None>>)>>

\* The k-th reduced form of max maximizes to max, and no earlier one does.
FirstRoundTrip(max, k) ==
    /\ addLikelySubtags(ReducedForms(max)[k], data) = Returned(max)
    /\ \A j \in 1..(k - 1) : addLikelySubtags(ReducedForms(max)[j], data) # Returned(max)

\* What C16 gives for minimize when max = maximize(input): the first reduced
\* form that round-trips, and max itself when none does.
TrialOrderResult(max, ret) ==
    /\ \A k \in 1..3 : FirstRoundTrip(max, k) => ret = Returned(ReducedForms(max)[k])
    /\ (\A k \in 1..3 : addLikelySubtags(ReducedForms(max)[k], data) # Returned(max)) => ret = Returned(max)

\* C16 as stated: with max = maximize(input), minimize returns the first of
\* the three reduced forms whose maximization equals max, and max itself
\* only when none does.
C16_TrialOrder ==
    (Minimized /\ addLikelySubtags(call.arg, data).ok)
        => TrialOrderResult(addLikelySubtags(call.arg, data).tag, call.ret)

\* minimize tries a reduced form whose maximization raises: one that no
\* round-tripping form precedes.
RaisingTrial(max) ==
    \E k \in 1..3 :
        /\ ~addLikelySubtags(ReducedForms(max)[k], data).ok
        /\ \A j \in 1..(k - 1) : addLikelySubtags(ReducedForms(max)[j], data) # Returned(max)

\* C16, amended: with max = maximize(input), minimize raises when the
\* maximization of a reduced form raises before a round-tripping one is
\* found; otherwise it returns the first of the three reduced forms whose
\* maximization equals max, and max itself only when none does.
C16_TrialOrderUnlessRaised ==
    (Minimized /\ addLikelySubtags(call.arg, data).ok)
        => IF RaisingTrial(addLikelySubtags(call.arg, data).tag)
           THEN ~call.ret.ok
           ELSE call.ret.ok /\ TrialOrderResult(addLikelySubtags(call.arg, data).tag, call.ret)

\* C16 happens: two reduced forms round-trip, and minimize returned the
\* earlier one.
C16_Witness ==
    /\ Minimized
    /\ call.ret.ok
    /\ \E k \in 1..3 : \E j \in (k + 1)..3 :
          /\ FirstRoundTrip(addLikelySubtags(call.arg, data).tag, k)
          /\ addLikelySubtags(ReducedForms(addLikelySubtags(call.arg, data).tag)[j], data) = addLikelySubtags(call.arg, data)
          /\ ReducedForms(addLikelySubtags(call.arg, data).tag)[j] # ReducedForms(addLikelySubtags(call.arg, data).tag)[k]
          /\ call.ret.tag = ReducedForms(addLikelySubtags(call.arg, data).tag)[k]

-----------------------------------------------------------------------------
(* The grandfathered rewrite, under SpecRewrite.                           *)

\* updateGrandfatheredMappings(tag) is being called.
GrandfatheredCall == pc = "updateGrandfatheredMappings" /\ pc' # pc

\* C18: the grandfathered rewrite changes nothing on a tag that has a
\* script, or a region, or a number of variants other than one, or an
\* extension, or a privateuse part, and nothing on a qualifying tag whose
\* (language, first variant) pair is not in the grandfathered table.
C18_GrandfatheredGuard ==
    [][(/\ GrandfatheredCall
        /\ \/ tag.script # None
           \/ tag.region # None
           \/ Len(tag.variants) # 1
           \/ tag.extensions # <<>>
           \/ tag.privateuse # None
           \/ ~DictHas(data.grandfatheredMappings, GrandfatheredKey(tag)))
          => tag' = tag]_vars

\* C18 happens: a tag with a language and a variant of the grandfathered
\* table and an extension went through the rewrite untouched.
C18_Witness ==
    /\ pc = "updateLocaleIdMappings"
    /\ passes = 0
    /\ Len(input.variants) = 1
    /\ DictHas(data.grandfatheredMappings, GrandfatheredKey(input))
    /\ input.script = None /\ input.region = None /\ input.privateuse = None
    /\ input.extensions # <<>>
    /\ tag = input

\* The replacement of the grandfathered entry the tag matches, in parts.
Replacement(t) == re_unicode_locale_id(DictGet(data.grandfatheredMappings, GrandfatheredKey(t)))

\* The variant list of the replacement, sorted.
ReplacementVariants(t) == SortedStrings(StrSplit(Tail(Replacement(t).variants), "-"))

\* updateGrandfatheredMappings(tag) is being called on a qualifying tag that
\* matches a grandfathered entry.
GrandfatheredRewrite == GrandfatheredCall /\ MatchesGrandfathered(tag)

\* C19 as stated: the rewrite sets the language, and overwrites each of
\* script, region, variants and privateuse only if the replacement contains
\* that part; a part the replacement does not contain keeps the value the
\* tag had.
C19_OverwritesOnlyPresent ==
    [][GrandfatheredRewrite =>
          /\ tag'.language = Replacement(tag).language
          /\ tag'.script = (IF Replacement(tag).script # None THEN Replacement(tag).script ELSE tag.script)
          /\ tag'.region = (IF Replacement(tag).region # None THEN Replacement(tag).region ELSE tag.region)
          /\ tag'.variants = (IF Replacement(tag).variants # None THEN ReplacementVariants(tag) ELSE tag.variants)
          /\ tag'.privateuse = (IF Replacement(tag).privateuse # None THEN Replacement(tag).privateuse ELSE tag.privateuse)]_vars

\* C19, amended: the rewrite sets the language, overwrites script, region
\* and privateuse only if the replacement contains that part, and always
\* overwrites the variants: by the replacement's whole variant list in
\* sorted order, or by the empty list when the replacement has no variants.
\* The extensions stay (empty).
C19_OverwritesVariantsAlways ==
    [][GrandfatheredRewrite =>
          /\ tag'.language = Replacement(tag).language
          /\ tag'.script = (IF Replacement(tag).script # None THEN Replacement(tag).script ELSE tag.script)
          /\ tag'.region = (IF Replacement(tag).region # None THEN Replacement(tag).region ELSE tag.region)
          /\ tag'.variants = (IF Replacement(tag).variants # None THEN ReplacementVariants(tag) ELSE <<>>)
          /\ tag'.privateuse = (IF Replacement(tag).privateuse # None THEN Replacement(tag).privateuse ELSE tag.privateuse)
          /\ tag'.extensions = tag.extensions]_vars

\* C19 happens: zh-xiang was rewritten by a replacement that has every part,
\* its two variants not in sorted order.
C19_Witness ==
    /\ pc = "updateLocaleIdMappings"
    /\ passes = 0
    /\ input = VariantTag("zh", "xiang")
    /\ DictHas(data.grandfatheredMappings, "zh-xiang")
    /\ DictGet(data.grandfatheredMappings, "zh-xiang") = "hsn-Latn-CN-pinyin-fonipa-x-priv"
    /\ tag.language = "hsn"
    /\ tag.script = "Latn"
    /\ tag.region = "CN"
    /\ tag.variants = <<"fonipa", "pinyin">>
    /\ tag.privateuse = "x-priv"

-----------------------------------------------------------------------------
(* Step 1 of maximize against the generated canonicalizer, under           *)
(* SpecLikely.                                                             *)

\* The tag object with the three fields of the triple x and nothing else.
TagOf(x) == [NoTag EXCEPT !.language = x[1], !.script = x[2], !.region = x[3]]

\* Step 1 of maximize on the argument of the call.
Step1 ==
    canonical(call.arg, data.languageMappings, data.complexLanguageMappings,
              data.regionMappings, data.complexRegionMappings)

\* The generated canonicalizer on the tag of the argument of the call; the
\* grandfathered rewrite leaves a tag without variants alone.
Canonicalized == updateLocaleIdMappings(updateGrandfatheredMappings(TagOf(call.arg), generated), generated)

\* C20 as stated: for every input (l, s, r), step 1 of maximize gives
\* (canonicalize(tag).language, s, canonicalize(tag).region) without error,
\* also for a region with a complex region mapping.
C20_Step1Agrees ==
    Maximized =>
        /\ Step1.ok
        /\ ~Canonicalized.failed
        /\ Step1.tag = <<Canonicalized.tag.language, call.arg[2], Canonicalized.tag.region>>

-----------------------------------------------------------------------------
(* The generated switch statements and the likely-subtags functions on     *)
(* files that put several deprecated subtags in one case group and several *)
(* entries in one complex region mapping.                                  *)

\* languageAlias elements: two deprecated languages with one replacement,
\* and a grandfathered tag.
DispatchLanguageAliasPool ==
    <<(<<"sh", "sr_Latn">>), (<<"hbs", "sr_Latn">>), (<<"art_lojban", "jbo">>)>>

\* territoryAlias elements with several replacement regions.
DispatchTerritoryAliasPool ==
    <<(<<"YU", "RS ME">>), (<<"CS", "RS ME XK">>), (<<"SU", "RU AM UZ">>)>>

\* likelySubtag elements whose regions are among those replacements.
DispatchLikelyPool ==
    <<(<<"sr_Latn", "sr_Latn_ME">>), (<<"sq", "sq_Latn_XK">>), (<<"uz_Cyrl", "uz_Cyrl_AM">>),
      (<<"uz", "uz_Latn_UZ">>), (<<"ru", "ru_Cyrl_RU">>)>>

\* The files hold at most MaxDispatchElements elements in all.
MaxDispatchElements == 4

DispatchLanguages == {"sh", "hbs", "sr", "sq", "uz"}

DispatchScripts == {None, "Latn", "Cyrl"}

DispatchRegions == {None, "YU", "CS", "SU"}

DispatchTagInputs ==
    [language : DispatchLanguages, script : DispatchScripts, region : DispatchRegions,
     variants : {<<>>}, extensions : {<<>>}, privateuse : {None}]
    \cup {[NoTag EXCEPT !.language = "art", !.variants = <<"lojban">>]}

DispatchTupleInputs == DispatchLanguages \X DispatchScripts \X DispatchRegions

InitDispatch ==
    InitFrom(CldrFiles(DispatchLanguageAliasPool, DispatchTerritoryAliasPool, DispatchLikelyPool,
                       MaxDispatchElements))

NextDispatch ==
    \/ \E t \in DispatchTagInputs : ParseTag(t)
    \/ UpdateGrandfatheredMappings
    \/ UpdateLocaleIdMappings
    \/ CanonicalizeAgain
    \/ \E x \in DispatchTupleInputs : AddLikelySubtags(x)
    \/ \E x \in DispatchTupleInputs : RemoveLikelySubtags(x)
    \/ Discard

SpecDispatch == InitDispatch /\ [][NextDispatch]_vars


-----------------------------------------------------------------------------
(* The emitted dispatch against the tables, under SpecDispatch.            *)

\* A tag object with a language, a script and a region only.
DispatchTag(language, script, region) ==
    [NoTag EXCEPT !.language = language, !.script = script, !.region = region]

\* The region a complex region mapping <<default, entries>> gives to a tag
\* with this language and script: that of the first entry, in the order of
\* the list, whose language is the tag's and whose script is absent or the
\* tag's; the default when there is none.
SuppliedOrderRegion(replacement, language, script) ==
    LET entries == replacement[2]
        matching == {i \in 1..Len(entries) :
                        /\ entries[i][1] = language
                        /\ (entries[i][2] = None \/ entries[i][2] = script)}
    IN  IF matching = {} THEN replacement[1]
        ELSE entries[CHOOSE i \in matching : \A j \in matching : i <= j][3]

\* The region the emitted case of a deprecated region gives to such a tag.
EmittedRegion(region, language, script) ==
    RunRegionCase(DispatchTag(language, script, region), CaseOf(generated.regionCases, region)).region

\* The emitted case of every complex region selects, for every language and
\* script, the region of the first matching entry in the order of the list.
SelectsInSuppliedOrder ==
    \A r \in DictKeys(data.complexRegionMappings) :
        /\ HasCase(generated.regionCases, r)
        /\ \A l \in DispatchLanguages : \A s \in DispatchScripts :
              EmittedRegion(r, l, s) = SuppliedOrderRegion(DictGet(data.complexRegionMappings, r), l, s)

PositionIn(seq, x) == CHOOSE i \in 1..Len(seq) : seq[i] = x

\* C21 as stated: the emitted tests of every complex region are its
\* non_default_replacements in the order of the list, and so every tag gets
\* the region of the first matching entry in that order.
C21_TestsInSuppliedOrder ==
    /\ \A r \in DictKeys(data.complexRegionMappings) :
          /\ HasCase(generated.regionCases, r)
          /\ CaseOf(generated.regionCases, r).tests = DictGet(data.complexRegionMappings, r)[2]
    /\ SelectsInSuppliedOrder

\* C21, amended: the emitted tests of every complex region are its
\* non_default_replacements sorted by language, entries of one language
\* staying in the order of the list; every tag still gets the region of the
\* first matching entry in the order of the list.
C21_TestsSortedByLanguage ==
    /\ \A r \in DictKeys(data.complexRegionMappings) :
          /\ HasCase(generated.regionCases, r)
          /\ LET tests == CaseOf(generated.regionCases, r).tests
                 entries == DictGet(data.complexRegionMappings, r)[2]
             IN  /\ Len(tests) = Len(entries)
                 /\ {tests[i] : i \in 1..Len(tests)} = {entries[i] : i \in 1..Len(entries)}
                 /\ \A i, j \in 1..Len(tests) :
                       i < j => /\ ~StrLess(tests[j][1], tests[i][1])
                                /\ (tests[i][1] = tests[j][1]
                                       => PositionIn(entries, tests[i]) < PositionIn(entries, tests[j]))
    /\ SelectsInSuppliedOrder

\* C21 happens: CS lists sr-Latn before sq, the emitted case tests sq first;
\* SU lists two entries for uz, and uz-Cyrl-SU took the first one.
C21_Witness ==
    /\ CanonicalizedOnce
    /\ DictHas(data.complexRegionMappings, "CS")
    /\ DictGet(data.complexRegionMappings, "CS")[2] = <<(<<"sr", "Latn", "ME">>), (<<"sq", None, "XK">>)>>
    /\ CaseOf(generated.regionCases, "CS").tests = <<(<<"sq", None, "XK">>), (<<"sr", "Latn", "ME">>)>>
    /\ input = DispatchTag("sq", None, "CS")
    /\ tag.region = "XK"


\* The entries of a complex region mapping that match a language and script.
MatchingEntries(entries, language, script) ==
    {i \in 1..Len(entries) :
        /\ entries[i][1] = language
        /\ (entries[i][2] = None \/ entries[i][2] = script)}

\* C22 as stated: in every complex region mapping at most one entry matches
\* a given tag language and script.
C22_MutuallyExclusive ==
    \A r \in DictKeys(data.complexRegionMappings) :
        \A l \in DispatchLanguages : \A s \in DispatchScripts :
            Cardinality(MatchingEntries(DictGet(data.complexRegionMappings, r)[2], l, s)) <= 1

\* C22, amended: in every complex region mapping no two entries have the
\* same language and the same script (or absence of script); a tag is
\* matched by at most two entries, one with its script and one without
\* script, and then the one listed first gives the region.
C22_DistinctLanguageScript ==
    \A r \in DictKeys(data.complexRegionMappings) :
        LET entries == DictGet(data.complexRegionMappings, r)[2]
        IN  /\ \A i, j \in 1..Len(entries) :
                  i # j => <<entries[i][1], entries[i][2]>> # <<entries[j][1], entries[j][2]>>
            /\ \A l \in DispatchLanguages : \A s \in DispatchScripts :
                  LET matching == MatchingEntries(entries, l, s)
                  IN  /\ Cardinality(matching) <= 2
                      /\ \A i, j \in matching : i # j => entries[i][2] # entries[j][2]
                      /\ matching # {} =>
                            EmittedRegion(r, l, s) = entries[CHOOSE i \in matching : \A j \in matching : i <= j][3]

\* C22 happens: both entries of SU match uz-Cyrl, and uz-Cyrl-SU was given
\* the region of the one listed first.
C22_Witness ==
    /\ CanonicalizedOnce
    /\ DictHas(data.complexRegionMappings, "SU")
    /\ MatchingEntries(DictGet(data.complexRegionMappings, "SU")[2], "uz", "Cyrl") = {1, 2}
    /\ DictGet(data.complexRegionMappings, "SU")[2][2][3] = "UZ"
    /\ input = DispatchTag("uz", "Cyrl", "SU")
    /\ tag = DispatchTag("uz", "Cyrl", "AM")


\* The places of a switch where a label stands: <<case group, position>>.
LabelPlaces(cases, label) ==
    UNION {{<<i, j>> : j \in {k \in 1..Len(cases[i].labels) : cases[i].labels[k] = label}} :
              i \in 1..Len(cases)}

\* C23: every key of the complex language mapping has exactly one case label
\* in the emitted switch over the language, every key of the complex region
\* mapping exactly one in the switch over the region, merged case groups
\* included; no tag reaches the default branch of either switch.
C23_DispatchExhaustive ==
    /\ \A k \in DictKeys(data.complexLanguageMappings) :
          Cardinality(LabelPlaces(generated.languageCases, k)) = 1
    /\ \A k \in DictKeys(data.complexRegionMappings) :
          Cardinality(LabelPlaces(generated.regionCases, k)) = 1
    /\ ~failed

\* C23 happens: CS and YU share one case group, sh has a case of its own,
\* and sh-YU went through both switches.
C23_Witness ==
    /\ CanonicalizedOnce
    /\ DictKeys(data.complexRegionMappings) = {"CS", "YU"}
    /\ Len(generated.regionCases) = 1
    /\ generated.regionCases[1].labels = <<"CS", "YU">>
    /\ DictKeys(data.complexLanguageMappings) = {"sh"}
    /\ input = DispatchTag("sh", None, "YU")
    /\ tag = DispatchTag("sr", "Latn", "ME")
    /\ ~failed


-----------------------------------------------------------------------------
(* The order of the canonicalization steps, under SpecRewrite.             *)

\* The language the language step gives for a language.
MappedLanguage(l) ==
    IF DictHas(data.languageMappings, l) THEN DictGet(data.languageMappings, l)
    ELSE IF DictHas(data.complexLanguageMappings, l) THEN DictGet(data.complexLanguageMappings, l)[1]
    ELSE l

\* The variant list the grandfathered entry matched by a tag leaves.
RewrittenVariants(t) == IF Replacement(t).variants # None THEN ReplacementVariants(t) ELSE <<>>

\* C24: when the tag as given matches a grandfathered entry, the language
\* step finds the tag rewritten by that entry (language and variants of the
\* replacement), also when the language as given is a key of a language
\* mapping; the canonicalized tag has the language that the language step
\* gives for the replacement's language, and the replacement's variants.
C24_GrandfatheredFirst ==
    /\ (pc = "updateLocaleIdMappings" /\ passes = 0 /\ MatchesGrandfathered(input))
           => /\ tag.language = Replacement(input).language
              /\ tag.variants = RewrittenVariants(input)
    /\ (CanonicalizedOnce /\ MatchesGrandfathered(input))
           => /\ ~failed
              /\ tag.language = MappedLanguage(Replacement(input).language)
              /\ tag.variants = RewrittenVariants(input)

\* C24 happens: zh-guoyu -> zh is a grandfathered entry and zh -> cmn a
\* language mapping; zh + [guoyu] lost its variant and then became cmn.
C24_Witness ==
    /\ CanonicalizedOnce
    /\ input = VariantTag("zh", "guoyu")
    /\ DictHas(data.grandfatheredMappings, "zh-guoyu")
    /\ DictHas(data.languageMappings, "zh")
    /\ DictGet(data.languageMappings, "zh") = "cmn"
    /\ tag = [NoTag EXCEPT !.language = "cmn"]


-----------------------------------------------------------------------------
(* The tables during the calls, under SpecDispatch.                        *)

\* C25: no step of canonicalize (grandfathered, language and region) and no
\* call of maximize or minimize changes a table: the mappings read from the
\* files, the likely-subtags table and the tables of the generated file stay
\* what they were after construction.
C25_TablesUnchanged ==
    [][/\ cldr' = cldr
       /\ data' = data
       /\ generated' = generated]_vars

\* C25 happens: sh-YU was canonicalized twice, through a complex language
\* mapping and a simple region mapping beside a complex one, and the tables
\* are those the files give.
C25_Witness ==
    /\ pc = "canonical"
    /\ passes = 2
    /\ input = DispatchTag("sh", None, "YU")
    /\ tag = DispatchTag("sr", "Latn", "RS")
    /\ DictHas(data.complexLanguageMappings, "sh")
    /\ DictHas(data.regionMappings, "YU")
    /\ DictHas(data.complexRegionMappings, "SU")
    /\ data.likelySubtags # <<>>
    /\ data \in readSupplementalData(cldr)
    /\ generated = writeCLDRLanguageTagData(data)


-----------------------------------------------------------------------------
(* The likely-subtags test data on files whose likely-subtags table has    *)
(* deprecated subtags in keys and values.                                  *)

SanityLanguageAliasPool ==
    <<(<<"iw", "he">>), (<<"sh", "sr_Latn">>)>>

SanityTerritoryAliasPool ==
    <<(<<"DD", "DE">>)>>

SanityLikelyPool ==
    <<(<<"iw", "iw_Hebr_IL">>), (<<"he", "he_Hebr_IL">>), (<<"und_Hebr", "iw_Hebr_IL">>),
      (<<"de_DD", "de_Latn_DD">>), (<<"de_DE", "de_Latn_DE">>), (<<"und_Zzzz", "en_Latn_US">>),
      (<<"und", "en_Latn_US">>)>>

\* The files hold at most MaxSanityElements elements in all.
MaxSanityElements == 4

InitSanity ==
    InitFrom(CldrFiles(SanityLanguageAliasPool, SanityTerritoryAliasPool, SanityLikelyPool,
                       MaxSanityElements))

\* likely_canonical(k, v) for the i-th entry (k, v) of the likely-subtags
\* table.
LikelyCanonical(i) ==
    Called("likely_canonical", data.likelySubtags[i][1],
           likely_canonical(data.likelySubtags[i][1], data.likelySubtags[i][2], data))

NextSanity ==
    \/ \E i \in 1..Len(data.likelySubtags) : LikelyCanonical(i)
    \/ Discard

SpecSanity == InitSanity /\ [][NextSanity]_vars

-----------------------------------------------------------------------------
(* The sanity check of the likely-subtags test data, under SpecSanity.     *)

LikelyCanonicalCalled == pc = "returned" /\ call.op = "likely_canonical"

\* C26 as stated: for every entry of the likely-subtags table the sanity
\* check of likely_canonical passes.
C26_AssertionNeverFails ==
    LikelyCanonicalCalled => call.ret.ok

-----------------------------------------------------------------------------
(* The region step after the language step, under SpecDispatch.            *)

\* The script the language mapping leaves on the tag: its own script, else
\* the script of the complex replacement of its language, else none.
ScriptAfterLanguage ==
    IF tag.script # None THEN tag.script
    ELSE IF DictHas(data.languageMappings, tag.language) THEN None
    ELSE IF DictHas(data.complexLanguageMappings, tag.language)
    THEN DictGet(data.complexLanguageMappings, tag.language)[2]
    ELSE None

\* updateLocaleIdMappings(tag) is being called on a tag whose region, after
\* the language mapping, is a key of the complex region mapping only.
ComplexRegionCall ==
    /\ pc = "updateLocaleIdMappings"
    /\ pc' # pc
    /\ DictHas(data.complexRegionMappings, RegionAfterLanguage)
    /\ ~DictHas(data.regionMappings, RegionAfterLanguage)

\* C27: the complex region match uses the language and the script the tag
\* has after the language mapping, a script implied by a complex language
\* mapping included: the region becomes that of the first entry matching the
\* mapped language and that script, else the default.
C27_RegionSeesMappedLanguage ==
    [][ComplexRegionCall =>
          /\ ~failed'
          /\ tag'.region = SuppliedOrderRegion(DictGet(data.complexRegionMappings, RegionAfterLanguage),
                                               MappedLanguage(tag.language), ScriptAfterLanguage)]_vars

\* C27 happens: sh -> sr-Latn and YU -> RS with the entry (sr, Latn, ME);
\* sh-YU matched no entry as given and got ME after the language mapping.
C27_Witness ==
    /\ CanonicalizedOnce
    /\ input = DispatchTag("sh", None, "YU")
    /\ DictHas(data.complexLanguageMappings, "sh")
    /\ DictHas(data.complexRegionMappings, "YU")
    /\ DictGet(data.complexRegionMappings, "YU") = <<"RS", <<(<<"sr", "Latn", "ME">>)>>>>
    /\ SuppliedOrderRegion(DictGet(data.complexRegionMappings, "YU"), input.language, input.script) = "RS"
    /\ tag = DispatchTag("sr", "Latn", "ME")


-----------------------------------------------------------------------------
(* minimize applied twice, under SpecLikely.                               *)

\* C28 as stated: whenever minimize(x) succeeds, minimize(minimize(x))
\* succeeds and equals minimize(x).
C28_MinimizeIdempotent ==
    (Minimized /\ call.ret.ok) => removeLikelySubtags(call.ret.tag, data) = call.ret


\* C28, amended: whenever minimize(x) succeeds and either returned a reduced
\* form other than maximize(x), or maximize(maximize(x)) equals maximize(x),
\* minimize(minimize(x)) succeeds and equals minimize(x).
C28_MinimizeIdempotentWhereMaximizeIs ==
    (/\ Minimized
     /\ call.ret.ok
     /\ \/ call.ret.tag # addLikelySubtags(call.arg, data).tag
        \/ addLikelySubtags(call.ret.tag, data) = call.ret)
        => removeLikelySubtags(call.ret.tag, data) = call.ret


\* C28 happens: minimize found no reduced form and returned the complete
\* triple maximize(x), which maximize leaves alone; minimizing it again
\* returns it again.
C28_Witness ==
    /\ Minimized
    /\ call.ret.ok
    /\ call.ret.tag = addLikelySubtags(call.arg, data).tag
    /\ addLikelySubtags(call.ret.tag, data) = call.ret
    /\ call.ret.tag[2] # None
    /\ call.ret.tag[3] # None
    /\ call.arg # call.ret.tag
    /\ removeLikelySubtags(call.ret.tag, data) = call.ret


-----------------------------------------------------------------------------
(* The region tables after readSupplementalData, under SpecDispatch.       *)

\* Every territoryAlias type occurs once in the file.
TerritoryTypesOnce ==
    \A i, j \in 1..Len(cldr.territoryAlias) :
        i # j => cldr.territoryAlias[i][1] # cldr.territoryAlias[j][1]

\* The replacement regions a territoryAlias element lists.
ListedRegions(alias) == UpperAll(StrSplit(alias[2], " "))

\* A likely-subtags entry without region in its key gives one of these
\* regions, other than the first.
HasNonDefaultLikely(regions) ==
    \E i \in 1..Len(data.likelySubtags) :
        /\ data.likelySubtags[i][1][3] = None
        /\ SeqContains(regions, data.likelySubtags[i][2][3])
        /\ data.likelySubtags[i][2][3] # regions[1]

\* C29: after readSupplementalData (the caller is idle), when every
\* territory alias type occurs once, a deprecated region
\* whose alias lists several regions is a key of exactly one of
\* regionMappings and complexRegionMappings: of complexRegionMappings, with
\* the first listed region as default and a non-empty list of entries, none
\* of them with the default region, when the likely subtags give such
\* entries; of regionMappings, mapped to the first listed region, otherwise.
C29_RegionTablesPartition ==
    (pc = "idle" /\ TerritoryTypesOnce) =>
        \A i \in 1..Len(cldr.territoryAlias) :
            LET alias == cldr.territoryAlias[i]
                regions == ListedRegions(alias)
            IN  Len(regions) > 1 =>
                    /\ DictHas(data.regionMappings, alias[1]) # DictHas(data.complexRegionMappings, alias[1])
                    /\ DictHas(data.complexRegionMappings, alias[1]) <=> HasNonDefaultLikely(regions)
                    /\ DictHas(data.complexRegionMappings, alias[1]) =>
                          LET replacement == DictGet(data.complexRegionMappings, alias[1])
                          IN  /\ replacement[1] = regions[1]
                              /\ replacement[2] # <<>>
                              /\ \A k \in 1..Len(replacement[2]) :
                                    /\ replacement[2][k][3] # regions[1]
                                    /\ SeqContains(regions, replacement[2][k][3])
                    /\ DictHas(data.regionMappings, alias[1]) =>
                          DictGet(data.regionMappings, alias[1]) = regions[1]

\* C29 happens: SU lists RU, AM, UZ and the likely subtags give UZ for uz
\* and RU for ru, CS lists RS, ME, XK and the likely subtags give none of
\* them; SU is complex with the one entry for uz, CS is simple.
C29_Witness ==
    /\ TerritoryTypesOnce
    /\ cldr.territoryAlias = <<(<<"CS", "RS ME XK">>), (<<"SU", "RU AM UZ">>)>>
    /\ DictHas(data.likelySubtags, <<"ru", None, None>>)
    /\ DictKeys(data.complexRegionMappings) = {"SU"}
    /\ DictGet(data.complexRegionMappings, "SU") = <<"RU", <<(<<"uz", None, "UZ">>)>>>>
    /\ data.regionMappings = <<(<<"CS", "RS">>)>>
    /\ generated.regionMappings = data.regionMappings


-----------------------------------------------------------------------------
(* Merged case groups against cases of their own, under SpecDispatch.      *)

\* The case emitted for one entry of the complex language mapping alone.
OwnLanguageCase(k) ==
    LanguageCases(<<(<<k, DictGet(data.complexLanguageMappings, k)>>)>>)[1]

\* The case emitted for one entry of the complex region mapping alone.
OwnRegionCase(k) ==
    RegionCases(<<(<<k, DictGet(data.complexRegionMappings, k)>>)>>)[1]

\* C30: in the file as written (the caller is idle), every key of the
\* complex language mapping gets from the emitted switch, merged case groups
\* included, the result that a case emitted from
\* its own entry alone gives, for every tag; and so does every key of the
\* complex region mapping.
C30_MergedCasesAgree ==
    pc = "idle" =>
        /\ \A k \in DictKeys(data.complexLanguageMappings) :
              /\ HasCase(generated.languageCases, k)
              /\ \E own \in {OwnLanguageCase(k)} :
                    \A s \in DispatchScripts : \A r \in DispatchRegions :
                        RunLanguageCase(DispatchTag(k, s, r), CaseOf(generated.languageCases, k).body)
                            = RunLanguageCase(DispatchTag(k, s, r), own.body)
        /\ \A k \in DictKeys(data.complexRegionMappings) :
              /\ HasCase(generated.regionCases, k)
              /\ \E own \in {OwnRegionCase(k)} :
                    \A l \in DispatchLanguages : \A s \in DispatchScripts :
                        RunRegionCase(DispatchTag(l, s, k), CaseOf(generated.regionCases, k))
                            = RunRegionCase(DispatchTag(l, s, k), own)

\* C30 happens: hbs and sh share one case group, and sh-YU went through it
\* and through the case of YU.
C30_Witness ==
    /\ CanonicalizedOnce
    /\ Len(generated.languageCases) = 1
    /\ generated.languageCases[1].labels = <<"hbs", "sh">>
    /\ DictHas(data.complexRegionMappings, "YU")
    /\ input = DispatchTag("sh", None, "YU")
    /\ tag = RunRegionCase(RunLanguageCase(input, OwnLanguageCase("sh").body), OwnRegionCase("YU"))
    /\ tag = DispatchTag("sr", "Latn", "ME")

=============================================================================
